---------------------------- MODULE Spec2Model ----------------------------
(* Model of app.py (market-pulse-chinese): the symbol resolution cascade   *)
(* (resolve_symbol with its session cache), the retry-wrapped provider     *)
(* clients (get_finnhub_json, get_historical_data), the parts of the       *)
(* report (get_quote, filter_metrics, get_recent_news, the indicators of   *)
(* get_historical_data), one POST request of index from the form input to  *)
(* the result, the requests of two sessions interleaved, and the quota of  *)
(* a session (the tier limit, the payment routes and reset).               *)
(*                                                                         *)
(* Python strings are sequences of one-character strings, so that strip,   *)
(* upper, rsplit, isdigit and endswith are computed and not assumed.       *)
(* JSON values are records of one shape; dicts are functions from keys.    *)
EXTENDS Integers, Sequences, FiniteSets, TLC

VARIABLES
    \* ---- the Flask session and one resolve_symbol call (Spec) ----
    cacheInSession,  \* "symbol_cache" in session
    cache,           \* session["symbol_cache"]: trimmed input -> ticker
    pc,              \* position of the resolve_symbol call
    rawInput,        \* the argument of the current call
    input_str,       \* input_str after strip()
    result,          \* the value returned (Null is None)
    acceptedBy,      \* the stage that returned the ticker
    validatedAt,     \* <<stage, ticker>>: get_company_profile gave a name
    stagesRun,       \* stages whose upstream call was made in this call
    probes,          \* tickers looked up by the numeric-ID stage, in order
    cacheWrites,     \* executions of cache[input_str] = ... in this call
    upstreamCalls,   \* provider invocations made by this call
    cache0,          \* the cache mapping when the call began
    prev,            \* the previous call of the session: input and outcome
    calls,           \* calls made so far
    suggestion,      \* what the text completion did in the inference stage
    \* ---- the sessions (SpecSessions) ----
    sid,             \* the session of the running request
    other,           \* the request of the other session, while it waits
    asked,           \* session -> the trimmed inputs its requests resolved
    \* ---- the quota of the session (SpecQuota) ----
    request_count,   \* session.get("request_count", 0)
    paid_tier,       \* session.get("paid_tier", 0), an index of PRICING_TIERS
    subscribed,      \* session.get("subscribed", False)
    handled,         \* the last request to reset or to a payment route: the
                     \* route, its form value, the inputs cached when it came
    \* ---- one POST request of index (SpecRequest) ----
    req,             \* the request: position, fetches issued, parts, outcome
    \* ---- the provider clients (SpecClient) ----
    fh,              \* the last get_finnhub_json call
    hist,            \* the last get_historical_data call
    \* ---- the report (SpecReport) ----
    report,          \* the last run of the try block of index
    \* ---- the parts of the report on their own (SpecParts) ----
    news,            \* the last get_recent_news call
    metrics          \* the last filter_metrics call

vars == <<cacheInSession, cache, pc, rawInput, input_str, result, acceptedBy,
          validatedAt, stagesRun, probes, cacheWrites, upstreamCalls, cache0,
          prev, calls, suggestion, sid, other, asked, request_count, paid_tier,
          subscribed, handled, req, fh, hist, report,
          news, metrics>>

resolverVars == <<cacheInSession, cache, pc, rawInput, input_str, result,
                  acceptedBy, validatedAt, stagesRun, probes, cacheWrites,
                  upstreamCalls, cache0, prev, calls, suggestion>>

partVars == <<news, metrics>>

quotaVars == <<request_count, paid_tier, subscribed, handled>>

sessionVars == <<sid, other, asked, quotaVars>>

-----------------------------------------------------------------------------
(* Bounds of the model *)

\* resolve_symbol calls followed within one session
MaxCalls == 2

\* number of result entries a search payload carries at most
MaxResults == 2

\* bars of the longest historical series a download returns
MaxBars == 2

\* bars of the longest series the indicators are computed on
MaxYearBars == 51

\* items of the longest news list and lines of the longest generated text
MaxNews == 11

-----------------------------------------------------------------------------
(* Python strings *)

Digits == {"0", "1", "2", "3", "4", "5", "6", "7", "8", "9"}

Lowers == <<"a","b","c","d","e","f","g","h","i","j","k","l","m",
            "n","o","p","q","r","s","t","u","v","w","x","y","z">>
Uppers == <<"A","B","C","D","E","F","G","H","I","J","K","L","M",
            "N","O","P","Q","R","S","T","U","V","W","X","Y","Z">>

UpperChar(c) ==
    IF \E i \in 1..Len(Lowers) : Lowers[i] = c
    THEN Uppers[CHOOSE i \in 1..Len(Lowers) : Lowers[i] = c]
    ELSE c

LowerChar(c) ==
    IF \E i \in 1..Len(Uppers) : Uppers[i] = c
    THEN Lowers[CHOOSE i \in 1..Len(Uppers) : Uppers[i] = c]
    ELSE c

\* str.upper() / str.lower()
Upper(s) == [i \in 1..Len(s) |-> UpperChar(s[i])]
Lower(s) == [i \in 1..Len(s) |-> LowerChar(s[i])]

IsSpace(c) == c \in {" ", "\t", "\n"}

RECURSIVE LStrip(_)
LStrip(s) == IF s # <<>> /\ IsSpace(Head(s)) THEN LStrip(Tail(s)) ELSE s

RECURSIVE RStrip(_)
RStrip(s) ==
    IF s # <<>> /\ IsSpace(s[Len(s)]) THEN RStrip(SubSeq(s, 1, Len(s) - 1)) ELSE s

\* str.strip()
Strip(s) == RStrip(LStrip(s))

\* str.isdigit(): non-empty and digits only
IsDigit(s) == s # <<>> /\ \A i \in 1..Len(s) : s[i] \in Digits

\* str.endswith(suffix)
EndsWith(s, suffix) ==
    /\ Len(s) >= Len(suffix)
    /\ SubSeq(s, Len(s) - Len(suffix) + 1, Len(s)) = suffix

\* 'c' in s
HasChar(s, c) == \E i \in 1..Len(s) : s[i] = c

\* a in b (substring test)
IsSubstring(a, b) ==
    \E i \in 0..(Len(b) - Len(a)) : SubSeq(b, i + 1, i + Len(a)) = a

\* s.rsplit('.', 1) of a string holding a '.': the parts around the last '.'
LastDot(s) == CHOOSE i \in 1..Len(s) : s[i] = "." /\ \A j \in (i+1)..Len(s) : s[j] # "."
RSplitDot(s) == <<SubSeq(s, 1, LastDot(s) - 1), SubSeq(s, LastDot(s) + 1, Len(s))>>

DotTW  == <<".", "T", "W">>
DotTWO == <<".", "T", "W", "O">>

-----------------------------------------------------------------------------
(* JSON values and dicts *)

Str(s)   == [t |-> "str",  s |-> s,    n |-> 0, items |-> <<>>]
Num(n)   == [t |-> "num",  s |-> <<>>, n |-> n, items |-> <<>>]
List(xs) == [t |-> "list", s |-> <<>>, n |-> 0, items |-> xs]
Null     == [t |-> "null", s |-> <<>>, n |-> 0, items |-> <<>>]

EmptyDict == [k \in {} |-> Null]

\* d.get(k, default); d.get(k) is Get(d, k, Null)
Get(d, k, default) == IF k \in DOMAIN d THEN d[k] ELSE default

\* truth value of a Python object
Truthy(v) ==
    CASE v.t = "str"  -> v.s # <<>>
      [] v.t = "num"  -> v.n # 0
      [] v.t = "list" -> v.items # <<>>
      [] OTHER        -> FALSE

TruthyDict(d) == DOMAIN d # {}

-----------------------------------------------------------------------------
(* get_finnhub_json: the retry-wrapped call to the primary provider *)

\* range(3)
Retries == 3

\* what one requests.get + raise_for_status + json() can do
AttemptOutcomes(payloads) ==
    {[ok |-> FALSE, err |-> e, payload |-> EmptyDict] : e \in {"transport", "http"}}
    \cup {[ok |-> TRUE, err |-> "", payload |-> p] : p \in payloads}

\* the outcomes the successive attempts of one call would meet; one more
\* than the loop consumes
AttemptSeqs(payloads) == [1..(Retries + 1) -> AttemptOutcomes(payloads)]

RECURSIVE FinnhubLoop(_, _, _)
FinnhubLoop(outs, i, w) ==
    IF i > Retries
    THEN [result |-> EmptyDict, attempts |-> i - 1, warnings |-> w]
    ELSE IF outs[i].ok
         THEN [result |-> outs[i].payload, attempts |-> i, warnings |-> w]
         ELSE FinnhubLoop(outs, i + 1, w + 1)

RECURSIVE FinnhubLoopNoReturn(_, _, _, _)
FinnhubLoopNoReturn(outs, i, w, last) ==
    IF i > Retries
    THEN [result |-> last, attempts |-> i - 1, warnings |-> w]
    ELSE IF outs[i].ok
         THEN FinnhubLoopNoReturn(outs, i + 1, w, outs[i].payload)
         ELSE FinnhubLoopNoReturn(outs, i + 1, w + 1, last)

\* faulty variant: the loop keeps requesting after a success
get_finnhub_json_keeps_going(outs) == FinnhubLoopNoReturn(outs, 1, 0, EmptyDict)

get_finnhub_json(outs) == FinnhubLoop(outs, 1, 0)

\* k failed attempts, then answers of payload p
FailThen(k, p) ==
    [i \in 1..(Retries + 1) |->
        IF i <= k THEN [ok |-> FALSE, err |-> "transport", payload |-> EmptyDict]
        ELSE [ok |-> TRUE, err |-> "", payload |-> p]]

\* the values get_finnhub_json can return for an endpoint: its value after
\* any number of failed attempts before the first answer
FinnhubResults(payloads) ==
    {get_finnhub_json(FailThen(k, p)).result : k \in 0..(Retries + 1), p \in payloads}


-----------------------------------------------------------------------------
(* Strings of the program and of the modelled upstream answers *)

TSMC == <<"T", "S", "M", "C">>

\* the key of three CJK code points (one element per code point)
TaiJiDian == <<"U+53F0", "U+7A4D", "U+96FB">>

\* the key of eight CJK code points
TaiwanJiTi ==
    <<"U+53F0", "U+7063", "U+7A4D", "U+9AD4", "U+96FB", "U+8DEF", "U+88FD", "U+9020">>

TaiwanSemi ==
    <<"T","a","i","w","a","n"," ","S","e","m","i","c","o","n","d","u","c","t","o","r",
      " ","M","a","n","u","f","a","c","t","u","r","i","n","g">>

S2330     == <<"2", "3", "3", "0">>
S2330TW   == S2330 \o DotTW
S2330tw   == S2330 \o <<".", "t", "w">>
S9999999  == <<"9", "9", "9", "9", "9", "9", "9">>
Taiwan    == <<"T", "a", "i", "w", "a", "n">>
S2454TW   == <<"2", "4", "5", "4">> \o DotTW
S6488TWO  == <<"6", "4", "8", "8">> \o DotTWO
AAPL      == <<"A", "A", "P", "L">>
Unknown   == <<"U", "n", "k", "n", "o", "w", "n">>
CoName    == <<"T", "S", "M", "C", " ", "L", "t", "d">>
Tech      == <<"T", "e", "c", "h", "n", "o", "l", "o", "g", "y">>
CommonStock == <<"C","o","m","m","o","n"," ","S","t","o","c","k">>
ETP       == <<"E", "T", "P">>

SYMBOL_MAPPINGS ==
    [k \in {TaiJiDian, TSMC, TaiwanJiTi, TaiwanSemi} |-> S2330TW]

\* the raw inputs a request hands to resolve_symbol
RawInputs ==
    { <<>>, <<" ">> \o TSMC \o <<" ">>, S2330tw, S2330TW, S9999999, Taiwan }

-----------------------------------------------------------------------------
(* get_company_profile *)

\* what stock/profile2 answers with
ProfilePayloads ==
    { [name |-> Str(CoName), finnhubIndustry |-> Str(Tech)],
      [name |-> Str(<<>>), finnhubIndustry |-> Str(Tech)],
      [finnhubIndustry |-> Str(Tech)],
      EmptyDict }

ProfileFinnhubResults == FinnhubResults(ProfilePayloads)

\* yf.Ticker(symbol).info: raises, or a dict
YfRaises == [raises |-> TRUE, info |-> EmptyDict]
YfInfo(d) == [raises |-> FALSE, info |-> d]

YfProfileOutcomes ==
    { YfRaises,
      YfInfo([longName |-> Str(TaiwanSemi), sector |-> Str(Tech)]),
      YfInfo([longName |-> Null, sector |-> Str(Tech)]),
      YfInfo(EmptyDict) }

get_company_profile(finnhub, yfin) ==
    IF ~TruthyDict(finnhub) \/ ~Truthy(Get(finnhub, "name", Null))
    THEN IF yfin.raises
         THEN EmptyDict
         ELSE [name            |-> Get(yfin.info, "longName", Str(Unknown)),
               finnhubIndustry |-> Get(yfin.info, "sector", Str(Unknown)),
               country         |-> Get(yfin.info, "country", Str(Unknown))]
    ELSE finnhub

\* the profiles a lookup can return
CompanyProfiles ==
    {get_company_profile(f, y) : f \in ProfileFinnhubResults, y \in YfProfileOutcomes}

\* faulty variant: the name is not looked at
AcceptsAnyProfile(profile) == TruthyDict(profile)

\* profile and profile.get('name')
Accepts(profile) == TruthyDict(profile) /\ Truthy(Get(profile, "name", Null))

\* the lookup returned a non-empty name (what the history records)
HasName(profile) ==
    /\ "name" \in DOMAIN profile
    /\ profile["name"].t = "str"
    /\ profile["name"].s # <<>>


-----------------------------------------------------------------------------
(* Upstream answers met by resolve_symbol *)

\* entries of the 'result' list of the search endpoint
SearchEntries ==
    { [symbol |-> Str(S2454TW),  type |-> Str(CommonStock)],
      [symbol |-> Str(S6488TWO), type |-> Str(CommonStock)],
      [symbol |-> Str(AAPL),     type |-> Str(CommonStock)],
      [symbol |-> Null,          type |-> Str(CommonStock)],
      [symbol |-> Null,          type |-> Str(ETP)] }

SearchLists ==
    UNION {[1..n -> SearchEntries] : n \in 0..MaxResults}

\* what the search endpoint answers with
SearchPayloads ==
    {[count |-> Num(Len(l)), result |-> List(l)] : l \in SearchLists}
    \cup {[count |-> Num(0), result |-> Null], [count |-> Num(0)]}

SearchFinnhubResults == FinnhubResults(SearchPayloads)

\* openai.ChatCompletion.create(...): raises, or the content of the reply
OpenAIRaises == [raises |-> TRUE, content |-> <<>>]
OpenAIReply(c) == [raises |-> FALSE, content |-> c]

OpenAISymbolOutcomes ==
    { OpenAIRaises,
      OpenAIReply(<<" ">> \o S2454TW \o <<"\n">>),
      OpenAIReply(S6488TWO),
      OpenAIReply(S2330tw),
      OpenAIReply(AAPL) }

\* yf.Ticker(query).info in the secondary-provider stage
YfProbeOutcomes(query) ==
    { YfRaises,
      YfInfo(EmptyDict),
      YfInfo([symbol |-> Null]),
      YfInfo([symbol |-> Str(Upper(query))]) }

\* yf.Ticker("2330.TW").info, the anchor of the name search
YfAnchorOutcomes ==
    { YfRaises,
      YfInfo(EmptyDict),
      YfInfo([longName |-> Null, shortName |-> Str(Upper(TaiwanSemi))]),
      YfInfo([longName |-> Str(TaiwanSemi), shortName |-> Str(Upper(TaiwanSemi))]),
      YfInfo([shortName |-> Str(Upper(TaiwanSemi))]) }

-----------------------------------------------------------------------------
(* resolve_symbol *)

Stages == {"mapping", "direct", "numeric", "search", "openai", "yahoo"}

NoPrev == [valid |-> FALSE, raw |-> <<>>, returned |-> FALSE, result |-> Null]

\* faulty variant: the lookup never hits
CacheNeverHit(c, key) == FALSE

\* input_str in cache
CacheHit(c, key) == key \in DOMAIN c

\* faulty variant: the entry replaces the mapping
PutAlone(c, key, symbol) == [k \in {key} |-> symbol]

\* cache[input_str] = symbol
Put(c, key, symbol) ==
    [k \in DOMAIN c \cup {key} |-> IF k = key THEN symbol ELSE c[k]]

\* faulty variant: the entry is written before the profile is looked at
StoreAlways(c, key, symbol, profile) == Put(c, key, symbol)

\* if profile and profile.get('name'): cache[input_str] = symbol
StoreIfValid(c, key, symbol, profile) ==
    IF Accepts(profile) THEN Put(c, key, symbol) ELSE c

\* faulty variant: the stage does not return what it accepted
FallsThrough(profile, next) == next

\* if profile and profile.get('name'): ... return symbol
AfterLookup(profile, next) == IF Accepts(profile) THEN "returned" ELSE next

\* the text completion has not been asked in this call
NoSuggestion == [asked |-> FALSE, raises |-> FALSE, content |-> <<>>]

\* the variables one call works on, as a record
Here ==
    [cache |-> cache, cacheWrites |-> cacheWrites, pc |-> pc, result |-> result,
     acceptedBy |-> acceptedBy, validatedAt |-> validatedAt, stagesRun |-> stagesRun,
     probes |-> probes, upstreamCalls |-> upstreamCalls]

Become(st) ==
    /\ cache' = st.cache
    /\ cacheWrites' = st.cacheWrites
    /\ pc' = st.pc
    /\ result' = st.result
    /\ acceptedBy' = st.acceptedBy
    /\ validatedAt' = st.validatedAt
    /\ stagesRun' = st.stagesRun
    /\ probes' = st.probes
    /\ upstreamCalls' = st.upstreamCalls

\* the history of one lookup made by a stage
Validated(stage, symbol, profile) ==
    IF HasName(profile) THEN {<<stage, symbol>>} ELSE {}

\* profile = get_company_profile(symbol)
\* if profile and profile.get('name'):
\*     cache[input_str] = symbol; session["symbol_cache"] = cache; return symbol
\* (lines 156-161, 167-172, 178-183, 193-198 and 214-219)
Lookup(st, stage, symbol, profile, next) ==
    LET stored == StoreIfValid(st.cache, input_str, symbol, profile)
    IN  [st EXCEPT
           !.cache = stored,
           !.cacheWrites = IF stored # st.cache \/ Accepts(profile) THEN @ + 1 ELSE @,
           !.pc = AfterLookup(profile, next),
           !.result = IF Accepts(profile) THEN Str(symbol) ELSE @,
           !.acceptedBy = IF Accepts(profile) THEN stage ELSE @,
           !.validatedAt = @ \cup Validated(stage, symbol, profile),
           !.upstreamCalls = @ + 1]

\* a stage makes its upstream call
Enter(st, stage) ==
    [st EXCEPT !.stagesRun = @ \cup {stage}]

\* lines 137-151: strip, the empty check, the cache initialisation and lookup
Begin(raw) ==
    /\ pc \in {"idle", "returned", "raised"}
    /\ calls < MaxCalls
    /\ calls' = calls + 1
    /\ prev' = IF pc = "idle" THEN prev
               ELSE [valid |-> TRUE, raw |-> rawInput,
                     returned |-> (pc = "returned"), result |-> result]
    /\ rawInput' = raw
    /\ input_str' = Strip(raw)
    /\ cache0' = cache
    /\ validatedAt' = {}
    /\ stagesRun' = {}
    /\ probes' = <<>>
    /\ cacheWrites' = 0
    /\ upstreamCalls' = 0
    /\ suggestion' = NoSuggestion
    /\ asked' = IF input_str' = <<>> THEN asked
                ELSE [asked EXCEPT ![sid] = @ \cup {input_str'}]
    /\ cache' = cache
    /\ IF input_str' = <<>>
       THEN /\ pc' = "returned"
            /\ result' = Null
            /\ acceptedBy' = "none"
            /\ cacheInSession' = cacheInSession
       ELSE /\ cacheInSession' = TRUE
            /\ IF CacheHit(cache, input_str')
               THEN /\ pc' = "returned"
                    /\ result' = Str(cache[input_str'])
                    /\ acceptedBy' = "cache"
               ELSE /\ pc' = "mapping"
                    /\ result' = Null
                    /\ acceptedBy' = "none"
    /\ UNCHANGED <<sid, other, quotaVars, fh, hist, report, partVars>>

\* a resolve_symbol call made on its own
Call(raw) == Begin(raw) /\ UNCHANGED req

\* lines 153-161
MappingStage ==
    /\ pc = "mapping"
    /\ IF input_str \in DOMAIN SYMBOL_MAPPINGS
       THEN \E profile \in CompanyProfiles :
              Become(Lookup(Enter(Here, "mapping"), "mapping",
                            SYMBOL_MAPPINGS[input_str], profile, "direct"))
       ELSE Become([Here EXCEPT !.pc = "direct"])
    /\ UNCHANGED <<cacheInSession, rawInput, input_str, cache0, prev, calls,
                   fh, hist, report, partVars, req, sessionVars, suggestion>>

\* parts[0].upper() + '.' + parts[1].upper()
DirectSymbol(s) == Upper(RSplitDot(s)[1]) \o <<".">> \o Upper(RSplitDot(s)[2])

\* lines 163-172
DirectStage ==
    /\ pc = "direct"
    /\ IF HasChar(input_str, ".")
       THEN \E profile \in CompanyProfiles :
              Become(Lookup(Enter(Here, "direct"), "direct",
                            DirectSymbol(input_str), profile, "numeric"))
       ELSE Become([Here EXCEPT !.pc = "numeric"])
    /\ UNCHANGED <<cacheInSession, rawInput, input_str, cache0, prev, calls,
                   fh, hist, report, partVars, req, sessionVars, suggestion>>

\* faulty variant: the suffixes are tried in the other order
NumericSuffixesSwapped == <<DotTWO, DotTW>>

\* for suffix in ['.TW', '.TWO']
NumericSuffixes == <<DotTW, DotTWO>>

\* lines 176-184: the loop over the suffixes and the return None after it;
\* the value is the set of states the loop can end in, one for every way the
\* profile lookups can answer
RECURSIVE NumericLoop(_, _)
NumericLoop(st, i) ==
    IF i > Len(NumericSuffixes)
    THEN {[st EXCEPT !.pc = "returned", !.result = Null, !.acceptedBy = "none"]}
    ELSE LET symbol == input_str \o NumericSuffixes[i]
             After(profile) ==
                 Lookup([st EXCEPT !.probes = Append(@, symbol)],
                        "numeric", symbol, profile, "loop")
         IN  UNION { IF After(profile).pc = "returned"
                     THEN {After(profile)}
                     ELSE NumericLoop(After(profile), i + 1)
                     : profile \in CompanyProfiles }

\* lines 174-184
NumericStage ==
    /\ pc = "numeric"
    /\ IF IsDigit(input_str)
       THEN \E end \in NumericLoop(Enter(Here, "numeric"), 1) : Become(end)
       ELSE Become([Here EXCEPT !.pc = "search"])
    /\ UNCHANGED <<cacheInSession, rawInput, input_str, cache0, prev, calls,
                   fh, hist, report, partVars, req, sessionVars, suggestion>>

\* lines 190-198: the loop over the search results; the value is the set of
\* states the loop can end in, one for every way the profile lookups can answer
RECURSIVE SearchLoop(_, _, _)
SearchLoop(st, results, i) ==
    IF i > Len(results)
    THEN {[st EXCEPT !.pc = "openai"]}
    ELSE LET res == results[i]
             symbol == Get(res, "symbol", Str(<<>>))
             After(profile) == Lookup(st, "search", symbol.s, profile, "loop")
         IN  IF Get(res, "type", Null) = Str(CommonStock)
             THEN IF symbol.t # "str"
                  THEN {[st EXCEPT !.pc = "raised"]}   \* None has no endswith
                  ELSE IF EndsWith(symbol.s, DotTW) \/ EndsWith(symbol.s, DotTWO)
                       THEN UNION { IF After(profile).pc = "returned"
                                    THEN {After(profile)}
                                    ELSE SearchLoop(After(profile), results, i + 1)
                                    : profile \in CompanyProfiles }
                       ELSE SearchLoop(st, results, i + 1)
             ELSE SearchLoop(st, results, i + 1)

\* lines 186-198
SearchStage ==
    /\ pc = "search"
    /\ \E search \in SearchFinnhubResults :
         LET results == Get(search, "result", List(<<>>))
             st == [Enter(Here, "search") EXCEPT !.upstreamCalls = @ + 1]
         IN  IF results.t # "list"
             THEN Become([st EXCEPT !.pc = "raised"])   \* None is not iterable
             ELSE \E end \in SearchLoop(st, results.items, 1) : Become(end)
    /\ UNCHANGED <<cacheInSession, rawInput, input_str, cache0, prev, calls,
                   fh, hist, report, partVars, req, sessionVars, suggestion>>

\* lines 200-221
OpenAIStage ==
    /\ pc = "openai"
    /\ \E reply \in OpenAISymbolOutcomes, profile \in CompanyProfiles :
         LET st == [Enter(Here, "openai") EXCEPT !.upstreamCalls = @ + 1]
             suggested_symbol == Strip(reply.content)
         IN  /\ suggestion' = [asked |-> TRUE, raises |-> reply.raises,
                               content |-> reply.content]
             /\ IF reply.raises
                THEN Become([st EXCEPT !.pc = "yahoo"])
                ELSE IF EndsWith(suggested_symbol, DotTW) \/ EndsWith(suggested_symbol, DotTWO)
                     THEN Become(Lookup(st, "openai", suggested_symbol, profile, "yahoo"))
                     ELSE Become([st EXCEPT !.pc = "yahoo"])
    /\ UNCHANGED <<cacheInSession, rawInput, input_str, cache0, prev, calls,
                   fh, hist, report, partVars, req, sessionVars>>

\* cache[input_str] = symbol; session["symbol_cache"] = cache; return symbol
\* (lines 230-233 and 238-241: no profile is looked up)
AcceptEcho(st, symbol) ==
    [st EXCEPT !.cache = Put(st.cache, input_str, symbol),
               !.cacheWrites = @ + 1,
               !.pc = "returned",
               !.result = Str(symbol),
               !.acceptedBy = "yahoo"]

\* lines 245-246
\* faulty variant: the cascade goes back to the provider search
NotFoundSearchesAgain(st) == [st EXCEPT !.pc = "search"]

\* return None
NotFound(st) == [st EXCEPT !.pc = "returned", !.result = Null, !.acceptedBy = "none"]

\* lines 234-241: the name search against the anchor instrument
AnchorSearch(st, anchor) ==
    LET st1 == [st EXCEPT !.upstreamCalls = @ + 1]
        longName == Get(anchor.info, "longName", Str(<<>>))
        shortName == Get(anchor.info, "shortName", Str(<<>>))
    IN  IF anchor.raises \/ longName.t # "str"
        THEN NotFound(st1)
        ELSE IF IsSubstring(Lower(input_str), Lower(longName.s))
             THEN AcceptEcho(st1, S2330TW)
             ELSE IF shortName.t # "str"
                  THEN NotFound(st1)
                  ELSE IF IsSubstring(Lower(input_str), Lower(shortName.s))
                       THEN AcceptEcho(st1, S2330TW)
                       ELSE NotFound(st1)

\* for suffix in ['.TW', '.TWO'] (line 226)
YahooSuffixes == <<DotTW, DotTWO>>

\* lines 226-233: the loop over the suffixes; an exception ends the stage
RECURSIVE YahooLoop(_, _, _, _)
YahooLoop(st, infos, anchor, i) ==
    IF i > Len(YahooSuffixes)
    THEN AnchorSearch(st, anchor)
    ELSE LET suffix == YahooSuffixes[i]
             st1 == [st EXCEPT !.upstreamCalls = @ + 1]
             symbol == Get(infos[i].info, "symbol", Null)
         IN  IF infos[i].raises
             THEN NotFound(st1)
             ELSE IF Truthy(symbol)
                  THEN IF symbol.t # "str"
                       THEN NotFound(st1)
                       ELSE IF EndsWith(symbol.s, suffix)
                            THEN AcceptEcho(st1, symbol.s)
                            ELSE YahooLoop(st1, infos, anchor, i + 1)
                  ELSE YahooLoop(st1, infos, anchor, i + 1)

\* lines 223-246
YahooStage ==
    /\ pc = "yahoo"
    /\ \E y1 \in YfProbeOutcomes(input_str \o YahooSuffixes[1]),
          y2 \in YfProbeOutcomes(input_str \o YahooSuffixes[2]),
          anchor \in YfAnchorOutcomes :
         Become(YahooLoop(Enter(Here, "yahoo"), <<y1, y2>>, anchor, 1))
    /\ UNCHANGED <<cacheInSession, rawInput, input_str, cache0, prev, calls,
                   fh, hist, report, partVars, req, sessionVars, suggestion>>


-----------------------------------------------------------------------------
(* get_historical_data: the retry-wrapped download of the price series *)

\* range(3)
HistRetries == 3

\* the bars a downloaded series is made of (prices in cents)
Bars ==
    { [Close |-> 10050, Low |-> 9900,  High |-> 10100, Volume |-> 1200],
      [Close |-> 9800,  Low |-> 9700,  High |-> 10000, Volume |-> 3400] }

\* the series yf.download can return: empty, or up to MaxBars bars
Series == UNION {[1..n -> Bars] : n \in 0..MaxBars}

\* what one yf.download can do
DownloadOutcomes ==
    {[raises |-> TRUE, df |-> <<>>]} \cup {[raises |-> FALSE, df |-> d] : d \in Series}

DownloadSeqs == [1..(HistRetries + 1) -> DownloadOutcomes]

Min(S) == CHOOSE x \in S : \A y \in S : x <= y
Max(S) == CHOOSE x \in S : \A y \in S : x >= y

\* df.tail(n)
TailBars(df, n) == IF Len(df) <= n THEN df ELSE SubSeq(df, Len(df) - n + 1, Len(df))

\* df['Close']
CloseOf(df) == [i \in 1..Len(df) |-> df[i].Close]

RECURSIVE SumSeq(_)
SumSeq(xs) == IF xs = <<>> THEN 0 ELSE xs[1] + SumSeq(Tail(xs))

RECURSIVE GCD(_, _)
GCD(a, b) == IF b = 0 THEN a ELSE GCD(b, a % b)

\* the floats of the indicator arithmetic: a fraction in lowest terms with a
\* positive denominator, inf, or nan (rounding errors of the binary
\* representation are left out)
FInf == [k |-> "inf", num |-> 0, den |-> 1]
FNaN == [k |-> "nan", num |-> 0, den |-> 1]
Frac(a, b) ==
    LET g == GCD(IF a < 0 THEN -a ELSE a, b)
    IN  [k |-> "fin", num |-> a \div g, den |-> b \div g]

\* x / y of two non-negative floats; a zero divisor gives inf or nan, no error
FDiv(x, y) ==
    CASE x.k = "nan" \/ y.k = "nan"  -> FNaN
      [] x.k = "inf" /\ y.k = "inf"  -> FNaN
      [] x.k = "inf"                 -> FInf
      [] y.k = "inf"                 -> Frac(0, 1)
      [] y.num = 0 /\ x.num = 0      -> FNaN
      [] y.num = 0                   -> FInf
      [] OTHER                       -> Frac(x.num * y.den, x.den * y.num)

\* x + y
FAdd(x, y) ==
    CASE x.k = "nan" \/ y.k = "nan"  -> FNaN
      [] x.k = "inf" \/ y.k = "inf"  -> FInf
      [] OTHER                       -> Frac(x.num * y.den + y.num * x.den, x.den * y.den)

\* x - y for a finite x
FSub(x, y) ==
    CASE x.k = "nan" \/ y.k = "nan"  -> FNaN
      [] OTHER                       -> Frac(x.num * y.den - y.num * x.den, x.den * y.den)

\* round to the nearest integer of a / b, b > 0 (no value of the model lies
\* half-way, where the float's binary expansion decides)
RoundDiv(a, b) ==
    IF a >= 0 THEN (2 * a + b) \div (2 * b) ELSE -((2 * (-a) + b) \div (2 * b))

\* the float nan as a value of the technical dict
NaN == [t |-> "nan", s |-> <<>>, n |-> 0, items |-> <<>>]

\* round(x, 2), in hundredths; x counts units of unit hundredths; round() of
\* nan is nan
Round2(x, unit) ==
    IF x.k = "fin" THEN Num(RoundDiv(x.num * unit, x.den)) ELSE NaN

\* faulty variant: the mean of the whole series, whatever the window
RollingMeanWhole(xs, window, min_periods) ==
    IF Len(xs) < min_periods THEN FNaN ELSE Frac(SumSeq(xs), Len(xs))

\* xs.rolling(window, min_periods).mean().iloc[-1]
RollingMeanLast(xs, window, min_periods) ==
    LET n == IF Len(xs) < window THEN Len(xs) ELSE window
    IN  IF n < min_periods
        THEN FNaN
        ELSE Frac(SumSeq(SubSeq(xs, Len(xs) - n + 1, Len(xs))), n)

\* line 350: period=14
RsiPeriod == 14

\* lines 351-352: series.diff(1) is nan at the first bar, and nan > 0 is
\* False, so where() puts 0 there
Gain(series) ==
    [i \in 1..Len(series) |->
        IF i > 1 /\ series[i] - series[i - 1] > 0 THEN series[i] - series[i - 1] ELSE 0]

\* line 353
Loss(series) ==
    [i \in 1..Len(series) |->
        IF i > 1 /\ series[i] - series[i - 1] < 0 THEN series[i - 1] - series[i] ELSE 0]

\* lines 350-358
calculate_rsi(series) ==
    LET avg_gain == RollingMeanLast(Gain(series), RsiPeriod, 1)
        avg_loss == RollingMeanLast(Loss(series), RsiPeriod, 1)
        rs       == FDiv(avg_gain, avg_loss)
    IN  FSub(Frac(100, 1), FDiv(Frac(100, 1), FAdd(Frac(1, 1), rs)))

\* series.ewm(span, adjust=False).mean().iloc[-1]: y[1] = x[1] and
\* y[i] = (1 - a) * y[i-1] + a * x[i] with a = 2 / (span + 1), in fixed point
\* (thousandths of a cent)
RECURSIVE EwmLast(_, _, _)
EwmLast(series, span, i) ==
    IF i = 1
    THEN series[1] * 1000
    ELSE ((span - 1) * EwmLast(series, span, i - 1) + 2 * series[i] * 1000)
            \div (span + 1)

\* line 373: rolling(50); line 378-379: tail(20)
Ma50Window == 50
SupportWindow == 20

\* faulty variant: the average of the bars there are
Ma50OfAvailable(df) == RollingMeanLast(CloseOf(df), Ma50Window, 1)

\* line 373
Ma50(df) == RollingMeanLast(CloseOf(df), Ma50Window, Ma50Window)

\* line 378
Support(df) ==
    LET tail == TailBars(df, SupportWindow) IN Min({tail[i].Low : i \in 1..Len(tail)})

\* line 379
Resistance(df) ==
    LET tail == TailBars(df, SupportWindow) IN Max({tail[i].High : i \in 1..Len(tail)})

\* lines 373-388: the technical dict of a non-empty series (prices in cents,
\* rsi in hundredths)
Technical(df) ==
    [ma50       |-> Round2(Ma50(df), 1),
     rsi        |-> Round2(calculate_rsi(CloseOf(df)), 100),
     macd       |-> Num(RoundDiv(EwmLast(CloseOf(df), 12, Len(df))
                                   - EwmLast(CloseOf(df), 26, Len(df)), 1000)),
     support    |-> Num(Support(df)),
     resistance |-> Num(Resistance(df)),
     volume     |-> Num(df[Len(df)].Volume)]

\* lines 371-389
HistReturn(df, attempts, warnings) ==
    [df |-> df, technical |-> IF df = <<>> THEN EmptyDict ELSE Technical(df),
     attempts |-> attempts, warnings |-> warnings]

\* lines 361-370
RECURSIVE HistLoop(_, _, _, _)
HistLoop(outs, i, df, w) ==
    IF i > HistRetries
    THEN HistReturn(df, i - 1, w)
    ELSE IF outs[i].raises
         THEN HistLoop(outs, i + 1, df, w + 1)
         ELSE IF outs[i].df # <<>>
              THEN HistReturn(outs[i].df, i, w)
              ELSE HistLoop(outs, i + 1, outs[i].df, w)

\* faulty variant: an empty series ends the loop like a non-empty one
RECURSIVE HistLoopNoRetryOnEmpty(_, _, _, _)
HistLoopNoRetryOnEmpty(outs, i, df, w) ==
    IF i > HistRetries
    THEN HistReturn(df, i - 1, w)
    ELSE IF outs[i].raises
         THEN HistLoopNoRetryOnEmpty(outs, i + 1, df, w + 1)
         ELSE HistReturn(outs[i].df, i, w)

get_historical_data_no_retry_on_empty(outs) == HistLoopNoRetryOnEmpty(outs, 1, <<>>, 0)

get_historical_data(outs) == HistLoop(outs, 1, <<>>, 0)

\* the bars of a longer series: one more than Bars, closing higher
YearBars == Bars \cup {[Close |-> 10200, Low |-> 10000, High |-> 10300, Volume |-> 2100]}

\* a series of n bars: base everywhere but first at the start, odd back bars
\* before the end and last at the end
YearSeriesOf(n, back, base, first, odd, last) ==
    [i \in 1..n |->
        IF i = n THEN last
        ELSE IF i = n - back THEN odd
        ELSE IF i = 1 THEN first
        ELSE base]

\* the longer series yf.download can return: the odd bar lies inside or
\* outside the windows of the indicators
YearSeries ==
    {YearSeriesOf(n, back, base, first, odd, last) :
        n \in 1..MaxYearBars, back \in 1..(SupportWindow + 1), base \in Bars,
        first \in Bars, odd \in YearBars, last \in YearBars}

\* the values get_historical_data can return
HistResults == {get_historical_data(o) : o \in DownloadSeqs}

-----------------------------------------------------------------------------
(* get_quote and the report of index *)

NA == <<"N", "/", "A">>

\* normalized name -> provider short code (lines 253-258)
QuoteCodes ==
    [current_price |-> "c", open |-> "o", high |-> "h", low |-> "l",
     previous_close |-> "pc", daily_change |-> "dp"]

\* the keys of QUOTE_FIELDS (lines 93-101)
QUOTE_FIELDS ==
    {"current_price", "open", "high", "low", "previous_close", "daily_change", "volume"}

\* a quote answer with every field (values in units of 0.00001)
FullQuote ==
    [c |-> Num(10050123), o |-> Num(9950000), h |-> Num(10100007),
     l |-> Num(9900000), pc |-> Num(9800004), dp |-> Num(255128)]

Without(d, k) == [x \in DOMAIN d \ {k} |-> d[x]]

\* what the quote endpoint answers with: complete, one field omitted, one
\* field null, or nothing
QuotePayloads ==
    {FullQuote, EmptyDict}
    \cup {Without(FullQuote, k) : k \in DOMAIN FullQuote}
    \cup {[FullQuote EXCEPT ![k] = Null] : k \in DOMAIN FullQuote}

QuoteFinnhubResults == FinnhubResults(QuotePayloads)

\* round(x, 4) of a number given in units of 0.00001 (no answer of the model
\* ends in 5, where the float's binary expansion decides)
Round4(n) == IF n % 10 < 5 THEN n - (n % 10) ELSE n + 10 - (n % 10)

\* lines 248-261; round() of 'N/A' or None raises TypeError
get_quote(data) ==
    IF TruthyDict(data)
    THEN IF \E f \in DOMAIN QuoteCodes : Get(data, QuoteCodes[f], Str(NA)).t # "num"
         THEN [raises |-> TRUE, quote |-> EmptyDict]
         ELSE [raises |-> FALSE,
               quote |-> [f \in DOMAIN QuoteCodes \cup {"volume"} |->
                            IF f = "volume" THEN Str(NA)
                            ELSE Num(Round4(data[QuoteCodes[f]].n))]]
    ELSE [raises |-> FALSE, quote |-> EmptyDict]

\* d[k] = v
SetItem(d, k, v) == [x \in DOMAIN d \cup {k} |-> IF x = k THEN v ELSE d[x]]

NoReport ==
    [status |-> "none", symbol |-> <<>>, data |-> EmptyDict, quote |-> EmptyDict,
     df |-> <<>>, technical |-> EmptyDict]

\* the tickers a report is asked for
ReportSymbols == {S2330TW, S2330 \o DotTWO, S2454TW, S6488TWO}

\* lines 444-488 of index, as far as the quote goes: get_quote, the historical
\* data, the volume merge, the analysis call and the result; any exception
\* inside the try block becomes the error result
IndexTry(symbol, data, h, analysisRaises) ==
    LET q == get_quote(data)
    IN  IF q.raises \/ analysisRaises
        THEN [NoReport EXCEPT !.status = "error", !.symbol = symbol, !.data = data]
        ELSE [status |-> "ok", symbol |-> symbol, data |-> data,
              quote |-> SetItem(q.quote, "volume", Get(h.technical, "volume", Str(NA))),
              df |-> h.df, technical |-> h.technical]


-----------------------------------------------------------------------------
(* get_recent_news *)

\* index of the first occurrence of sep in s, 0 when there is none
Find(s, sep) ==
    IF IsSubstring(sep, s)
    THEN CHOOSE i \in 1..(Len(s) - Len(sep) + 1) :
            /\ SubSeq(s, i, i + Len(sep) - 1) = sep
            /\ \A j \in 1..(i - 1) : SubSeq(s, j, j + Len(sep) - 1) # sep
    ELSE 0

\* s.split(sep, 1)
SplitOnce(s, sep) ==
    IF Find(s, sep) = 0
    THEN <<s>>
    ELSE <<SubSeq(s, 1, Find(s, sep) - 1), SubSeq(s, Find(s, sep) + Len(sep), Len(s))>>

\* s.split('\n')
RECURSIVE SplitLines(_)
SplitLines(s) ==
    IF Find(s, <<"\n">>) = 0
    THEN <<s>>
    ELSE <<SubSeq(s, 1, Find(s, <<"\n">>) - 1)>>
            \o SplitLines(SubSeq(s, Find(s, <<"\n">>) + 1, Len(s)))

\* faulty variant: the whole list
TakeAll(xs, n) == xs

\* xs[:n]
Take(xs, n) == IF Len(xs) <= n THEN xs ELSE SubSeq(xs, 1, n)

\* generated[:10] and sorted(...)[:10]
NewsCap == 10

DigitChars == <<"0", "1", "2", "3", "4", "5", "6", "7", "8", "9">>

\* n in width decimal digits, zero padded (%Y, %m, %d, %H, %M)
RECURSIVE Pad(_, _)
Pad(n, width) ==
    IF width = 0 THEN <<>> ELSE Pad(n \div 10, width - 1) \o <<DigitChars[(n % 10) + 1]>>

\* the calendar date of a day number counted from 1970-01-01
CivilFromDays(days) ==
    LET z   == days + 719468
        era == z \div 146097
        doe == z - era * 146097
        yoe == (doe - doe \div 1460 + doe \div 36524 - doe \div 146096) \div 365
        doy == doe - (365 * yoe + yoe \div 4 - yoe \div 100)
        mp  == (5 * doy + 2) \div 153
        m   == IF mp < 10 THEN mp + 3 ELSE mp - 9
    IN  [y |-> yoe + era * 400 + (IF m <= 2 THEN 1 ELSE 0),
         m |-> m,
         d |-> doy - (153 * mp + 2) \div 5 + 1]

\* datetime.datetime.utcfromtimestamp(ts).strftime("%Y-%m-%d %H:%M")
StrfTime(ts) ==
    LET date == CivilFromDays(ts \div 86400)
        secs == ts % 86400
    IN  Pad(date.y, 4) \o <<"-">> \o Pad(date.m, 2) \o <<"-">> \o Pad(date.d, 2)
           \o <<" ">> \o Pad(secs \div 3600, 2) \o <<":">> \o Pad((secs % 3600) \div 60, 2)

\* "未知時間"
UnknownTime == <<"U+672A", "U+77E5", "U+6642", "U+9593">>

\* today: datetime.datetime.now().strftime("%Y-%m-%d") on the day of the call
Today == <<"2", "0", "2", "3", "-", "1", "1", "-", "1", "5">>

AIGenerated == <<"A", "I", " ", "G", "e", "n", "e", "r", "a", "t", "e", "d">>

\* ' - '
Delim == <<" ", "-", " ">>

\* lines 309-321: the items made of the generated lines
RECURSIVE SyntheticItems(_)
SyntheticItems(lines) ==
    IF lines = <<>>
    THEN <<>>
    ELSE LET parts == SplitOnce(Head(lines), Delim)
         IN  (IF Len(parts) = 2 /\ Strip(parts[1]) # <<>> /\ Strip(parts[2]) # <<>>
              THEN << [headline |-> Str(Strip(parts[1])),
                       summary  |-> Str(Strip(parts[2])),
                       datetime |-> Str(Today),
                       source   |-> Str(AIGenerated),
                       url      |-> Str(<<>>)] >>
              ELSE <<>>)
             \o SyntheticItems(Tail(lines))

\* isinstance(v, list) / isinstance(v, dict) of a parsed JSON value
IsList(v) == "t" \in DOMAIN v /\ v.t = "list"
IsDict(v) == "t" \notin DOMAIN v

\* key=lambda x: x.get("datetime", 0)
SortKey(x) == Get(x, "datetime", Num(0))

\* a < b is defined: numbers with numbers, strings with strings; None
\* compares with nothing
Comparable(a, b) == a.t = b.t /\ a.t \in {"num", "str"}

\* a < b for two strings of digits
RECURSIVE StrLess(_, _)
StrLess(a, b) ==
    IF b = <<>> THEN FALSE
    ELSE IF a = <<>> THEN TRUE
    ELSE IF Head(a) = Head(b) THEN StrLess(Tail(a), Tail(b))
    ELSE \E i, j \in 1..Len(DigitChars) :
            DigitChars[i] = Head(a) /\ DigitChars[j] = Head(b) /\ i < j

KeyLess(a, b) == IF a.t = "num" THEN a.n < b.n ELSE StrLess(a.s, b.s)

\* sorted() raises: x.get on an item that is no dict (AttributeError), or a
\* comparison of keys that do not compare (TypeError)
SortRaises(items) ==
    \/ \E i \in 1..Len(items) : ~IsDict(items[i])
    \/ \E i, j \in 1..Len(items) :
          i # j /\ ~Comparable(SortKey(items[i]), SortKey(items[j]))

\* sorted(..., reverse=True) keeps items of equal keys in their order
RECURSIVE InsertDesc(_, _)
InsertDesc(sorted, x) ==
    IF sorted = <<>> THEN <<x>>
    ELSE IF KeyLess(SortKey(Head(sorted)), SortKey(x))
         THEN <<x>> \o sorted
         ELSE <<Head(sorted)>> \o InsertDesc(Tail(sorted), x)

RECURSIVE SortedDesc(_)
SortedDesc(xs) ==
    IF xs = <<>> THEN <<>>
    ELSE InsertDesc(SortedDesc(SubSeq(xs, 1, Len(xs) - 1)), xs[Len(xs)])

\* lines 328-331: KeyError on a missing key and TypeError on a value that is
\* no number are caught
ConvertTime(n) ==
    IF "datetime" \in DOMAIN n /\ n["datetime"].t = "num"
    THEN SetItem(n, "datetime", Str(StrfTime(n["datetime"].n)))
    ELSE SetItem(n, "datetime", Str(UnknownTime))

\* faulty variant: a failure of the text completion leaves the function
get_recent_news_propagates(payload, reply) ==
    IF ~IsList(payload) \/ payload.items = <<>>
    THEN [raises |-> reply.raises, branch |-> "synthetic",
          news |-> IF reply.raises
                   THEN <<>>
                   ELSE SyntheticItems(Take(SplitLines(Strip(reply.content)), NewsCap))]
    ELSE [raises |-> SortRaises(payload.items), branch |-> "provider", news |-> <<>>]

\* lines 291-332; payload is the value of get_finnhub_json and reply what the
\* text completion does when asked
get_recent_news(payload, reply) ==
    IF ~IsList(payload) \/ payload.items = <<>>
    THEN [raises |-> FALSE, branch |-> "synthetic",
          news |-> IF reply.raises
                   THEN <<>>
                   ELSE SyntheticItems(Take(SplitLines(Strip(reply.content)), NewsCap))]
    ELSE IF SortRaises(payload.items)
         THEN [raises |-> TRUE, branch |-> "provider", news |-> <<>>]
         ELSE LET top == Take(SortedDesc(payload.items), NewsCap)
              IN  [raises |-> FALSE, branch |-> "provider",
                   news |-> [i \in 1..Len(top) |-> ConvertTime(top[i])]]

\* the i-th line of a generated text
GoodLine(i) == <<"H">> \o Pad(i, 2) \o Delim \o <<"S">> \o Pad(i, 2)

\* lines the generator can also write: no delimiter, a dash without spaces,
\* no headline, no summary, two delimiters, padded parts, a blank line
OddLines ==
    { <<"H", "S">>,
      <<"H", " ", "-", "S">>,
      Delim \o <<"S">>,
      <<"H">> \o Delim,
      <<"H">> \o Delim \o <<"S">> \o Delim \o <<"T">>,
      <<" ", "H", " ">> \o Delim \o <<" ", "S", " ">>,
      <<>> }

RECURSIVE JoinLines(_)
JoinLines(lines) ==
    IF lines = <<>> THEN <<>>
    ELSE IF Len(lines) = 1 THEN lines[1]
    ELSE lines[1] \o <<"\n">> \o JoinLines(Tail(lines))

\* the generated texts: n lines, the j-th of them odd, and a final newline
NewsContents ==
    {JoinLines([i \in 1..n |-> IF i = j THEN odd ELSE GoodLine(i)]) \o <<"\n">> :
        n \in 0..MaxNews, j \in 0..MaxNews, odd \in OddLines}

\* what the text completion does when asked for news
OpenAINewsOutcomes == {OpenAIRaises} \cup {OpenAIReply(c) : c \in NewsContents}

\* the i-th item of a provider list; the timestamps are neither sorted nor
\* all different
NewsItem(i) ==
    [id |-> Num(i), headline |-> Str(<<"N">> \o Pad(i, 2)),
     datetime |-> Num(1700000000 + 3600 * ((i * 3) % 7))]

\* items a provider list can also hold: no timestamp, a null timestamp, the
\* timestamp as a string, and an item that is no object
OddItems(i) ==
    { Without(NewsItem(i), "datetime"),
      [NewsItem(i) EXCEPT !["datetime"] = Null],
      [NewsItem(i) EXCEPT !["datetime"] = Str(Pad(17000, 5))],
      Str(<<"N">> \o Pad(i, 2)) }

NewsLists ==
    {[i \in 1..n |-> NewsItem(i)] : n \in 0..MaxNews}
    \cup UNION {{[i \in 1..n |-> IF i = j THEN odd ELSE NewsItem(i)] : odd \in OddItems(j)} :
                   n \in 1..MaxNews, j \in 1..MaxNews}

\* what the company-news endpoint answers with: a list, or an error object
NewsPayloads == {List(l) : l \in NewsLists} \cup {[error |-> Str(Unknown)]}

NewsFinnhubResults == FinnhubResults(NewsPayloads)

-----------------------------------------------------------------------------
(* filter_metrics *)

\* lines 268-277: provider key -> normalized key
metric_map ==
    [peTTM |-> <<"p", "e", "_", "r", "a", "t", "i", "o">>,
     pb |-> <<"p", "b", "_", "r", "a", "t", "i", "o">>,
     roeTTM |-> <<"r", "o", "e", "_", "t", "t", "m">>,
     roaTTM |-> <<"r", "o", "a", "_", "t", "t", "m">>,
     grossMarginTTM |-> <<"g", "r", "o", "s", "s", "_", "m", "a", "r", "g", "i", "n", "_", "t", "t", "m">>,
     revenueGrowthTTMYoy |-> <<"r", "e", "v", "e", "n", "u", "e", "_", "g", "r", "o", "w", "t", "h">>,
     epsGrowthTTMYoy |-> <<"e", "p", "s", "_", "g", "r", "o", "w", "t", "h">>,
     debtToEquityAnnual |-> <<"d", "e", "b", "t", "_", "t", "o", "_", "e", "q", "u", "i", "t", "y">>]

\* the decimal digits of a natural number
RECURSIVE IntStr(_)
IntStr(n) ==
    IF n < 10 THEN <<DigitChars[n + 1]>> ELSE IntStr(n \div 10) \o <<DigitChars[(n % 10) + 1]>>

\* the number written by a string of digits
RECURSIVE DigitsValue(_)
DigitsValue(s) ==
    IF s = <<>> THEN 0
    ELSE 10 * DigitsValue(SubSeq(s, 1, Len(s) - 1))
            + ((CHOOSE i \in 1..Len(DigitChars) : DigitChars[i] = s[Len(s)]) - 1)

\* float(s) of a string: surrounding whitespace is dropped; a decimal literal
\* (sign, digits, at most 5 decimals) or nan is a number (in units of
\* 0.00001), anything else written in the model raises ValueError
ParseFloat(s) ==
    LET t    == Strip(s)
        neg  == t # <<>> /\ Head(t) = "-"
        u    == IF t # <<>> /\ Head(t) \in {"-", "+"} THEN Tail(t) ELSE t
        dot  == Find(u, <<".">>)
        int  == IF dot = 0 THEN u ELSE SubSeq(u, 1, dot - 1)
        frac == IF dot = 0 THEN <<>> ELSE SubSeq(u, dot + 1, Len(u))
        all  == \A i \in 1..Len(int \o frac) : (int \o frac)[i] \in Digits
        mag  == DigitsValue(int) * 100000
                   + DigitsValue(frac \o [i \in 1..(5 - Len(frac)) |-> "0"])
    IN  IF Lower(u) = <<"n", "a", "n">>
        THEN [ok |-> TRUE, nan |-> TRUE, n |-> 0]
        ELSE IF int \o frac # <<>> /\ all /\ Len(frac) <= 5
             THEN [ok |-> TRUE, nan |-> FALSE, n |-> IF neg THEN -mag ELSE mag]
             ELSE [ok |-> FALSE, nan |-> FALSE, n |-> 0]

\* float(v): a number is itself, a string is parsed, None and lists raise
\* TypeError
ToFloat(v) ==
    CASE v.t = "num" -> [ok |-> TRUE, nan |-> FALSE, n |-> v.n]
      [] v.t = "str" -> ParseFloat(v.s)
      [] OTHER       -> [ok |-> FALSE, nan |-> FALSE, n |-> 0]

\* f"{v:.2f}%" of a number in units of 0.00001
FormatPercent(f) ==
    IF f.nan
    THEN <<"n", "a", "n", "%">>
    ELSE LET h == RoundDiv(f.n, 1000)
             a == IF h < 0 THEN -h ELSE h
         IN  (IF h < 0 THEN <<"-">> ELSE <<>>)
                \o IntStr(a \div 100) \o <<".">> \o Pad(a % 100, 2) \o <<"%">>

\* str(v) of the values of the model: a string is itself, [] is '[]'
PyStr(v) ==
    CASE v.t = "str"  -> v.s
      [] v.t = "list" -> <<"[", "]">>
      [] OTHER        -> <<"N", "o", "n", "e">>

GrowthWord == <<"g", "r", "o", "w", "t", "h">>
MarginWord == <<"m", "a", "r", "g", "i", "n">>
RoeWord == <<"r", "o", "e">>
RoaWord == <<"r", "o", "a">>

\* faulty variant: only the growth keys are percentages
IsPercentKeyGrowthOnly(new_key) == IsSubstring(GrowthWord, new_key)

\* line 283
IsPercentKey(new_key) ==
    \/ IsSubstring(GrowthWord, new_key)
    \/ IsSubstring(MarginWord, new_key)
    \/ IsSubstring(RoeWord, new_key)
    \/ IsSubstring(RoaWord, new_key)

\* lines 281-288: what is stored for a value that is not None
FilteredValue(new_key, v) ==
    IF ToFloat(v).ok
    THEN IF IsPercentKey(new_key)
         THEN Str(FormatPercent(ToFloat(v)))
         ELSE IF ToFloat(v).nan THEN NaN ELSE Num(Round4(ToFloat(v).n))
    ELSE Str(PyStr(v))

\* lines 266-289
filter_metrics(m) ==
    LET kept == {k \in DOMAIN metric_map : Get(m, k, Null) # Null}
    IN  [new_key \in {metric_map[k] : k \in kept} |->
            FilteredValue(new_key, m[CHOOSE k \in kept : metric_map[k] = new_key])]

\* what the provider can put under a metric key: numbers, numbers written as
\* strings, text, null and a list
MetricValues ==
    { Num(2512345), Num(-340000), Num(0),
      Str(<<"1", "2", ".", "5">>), Str(<<" ", "7", " ">>), Str(<<"n", "a", "n">>),
      Str(NA), Str(<<>>), Null, List(<<>>) }

\* the "metric" objects of the stock/metric answer: a metric the report does
\* not use, the mapped keys all absent or all numbers, and one of them odd
MetricsDicts ==
    { [k \in ({"52WeekHigh"} \cup present \cup {odd}) |->
          IF k = odd THEN v ELSE Num(1250000)] :
        present \in {{}, DOMAIN metric_map}, odd \in DOMAIN metric_map, v \in MetricValues }
    \cup {EmptyDict}

-----------------------------------------------------------------------------
(* The quota of a session: pricing tiers, the payment routes and reset *)

\* lines 104-110 (the prices play no part)
PRICING_TIERS ==
    << [name |-> "Free", limit |-> 50],
       [name |-> "Tier 1", limit |-> 100],
       [name |-> "Tier 2", limit |-> 200],
       [name |-> "Tier 3", limit |-> 400],
       [name |-> "Tier 4", limit |-> 800] >>

\* lines 414-417: the limit of the tier at index paid_tier (from 0)
LimitOf(tier_index) == PRICING_TIERS[tier_index + 1].limit

\* lines 519 and 549: the index from 0 of the tier of that name, -1 for None
TierIndex(tier_name) ==
    IF \E i \in 1..Len(PRICING_TIERS) : PRICING_TIERS[i].name = tier_name
    THEN (CHOOSE i \in 1..Len(PRICING_TIERS) : PRICING_TIERS[i].name = tier_name) - 1
    ELSE -1

\* the keys of a session that the routes read and write
FreshSession ==
    [request_count |-> 0, paid_tier |-> 0, subscribed |-> FALSE,
     has_cache |-> FALSE, symbol_cache |-> <<>>]

\* lines 518-545: only the switch to Free touches the session; an unknown
\* tier is answered 400, a paid tier goes to Stripe and changes nothing here
create_checkout_session(session, tier_name) ==
    IF TierIndex(tier_name) = -1
    THEN session
    ELSE IF tier_name = "Free"
         THEN [session EXCEPT !.subscribed = FALSE, !.paid_tier = 0, !.request_count = 0]
         ELSE session

\* lines 547-556
payment_success(session, tier_name) ==
    IF TierIndex(tier_name) # -1 /\ tier_name # "Free"
    THEN [session EXCEPT !.subscribed = TRUE, !.paid_tier = TierIndex(tier_name),
                         !.request_count = 0]
    ELSE session

\* line 561
ResetPassword == "888888"

\* faulty variant: the symbol cache survives the reset
reset_keeps_cache(session, password) ==
    IF password = ResetPassword
    THEN [session EXCEPT !.request_count = 0, !.subscribed = FALSE, !.paid_tier = 0]
    ELSE session

\* lines 558-571
reset(session, password) ==
    IF password = ResetPassword
    THEN [session EXCEPT !.request_count = 0, !.subscribed = FALSE, !.paid_tier = 0,
                         !.has_cache = TRUE, !.symbol_cache = <<>>]
    ELSE session

\* faulty variant: the request that reaches the limit is let through
LimitReachedLate(count, current_limit) == count > current_limit

\* line 421
LimitReached(count, current_limit) == count >= current_limit

\* no request to reset or to a payment route yet
NoQuotaRequest == [route |-> "none", arg |-> "", cached |-> {}]

-----------------------------------------------------------------------------
(* The specifications *)

\* the two sessions
Sessions == {1, 2}

\* the session and the locals of a request that has not called resolve_symbol
NoCall ==
    [cacheInSession |-> FALSE, cache |-> <<>>, pc |-> "idle", rawInput |-> <<>>,
     input_str |-> <<>>, result |-> Null, acceptedBy |-> "none", validatedAt |-> {},
     stagesRun |-> {}, probes |-> <<>>, cacheWrites |-> 0, upstreamCalls |-> 0,
     cache0 |-> <<>>, prev |-> NoPrev, suggestion |-> NoSuggestion]

NoRequest ==
    [pc |-> "idle", symbol_input |-> <<>>, symbol |-> <<>>, fetches |-> <<>>,
     outcome |-> "none", quote |-> EmptyDict, metrics |-> EmptyDict, news |-> <<>>,
     newsReply |-> NoSuggestion, profile |-> EmptyDict, technical |-> EmptyDict,
     request_count |-> 0, current_limit |-> LimitOf(0)]

NoNewsCall ==
    [called |-> FALSE, payload |-> EmptyDict, asked |-> FALSE, reply |-> OpenAIRaises,
     raises |-> FALSE, branch |-> "none", news |-> <<>>]

NoMetricsCall == [called |-> FALSE, metrics |-> EmptyDict, filtered |-> EmptyDict]

NoFinnhubCall ==
    [called |-> FALSE, outs |-> <<>>, result |-> EmptyDict, attempts |-> 0,
     warnings |-> 0]

NoHistCall ==
    [called |-> FALSE, outs |-> <<>>, df |-> <<>>, technical |-> EmptyDict,
     attempts |-> 0, warnings |-> 0]

\* a new session, before any request
Init ==
    /\ cacheInSession = FALSE
    /\ cache = <<>>
    /\ pc = "idle"
    /\ rawInput = <<>>
    /\ input_str = <<>>
    /\ result = Null
    /\ acceptedBy = "none"
    /\ validatedAt = {}
    /\ stagesRun = {}
    /\ probes = <<>>
    /\ cacheWrites = 0
    /\ upstreamCalls = 0
    /\ cache0 = <<>>
    /\ prev = NoPrev
    /\ calls = 0
    /\ suggestion = NoSuggestion
    /\ sid = 1
    /\ other = NoCall
    /\ asked = [s \in Sessions |-> {}]
    /\ request_count = 0
    /\ paid_tier = 0
    /\ subscribed = FALSE
    /\ handled = NoQuotaRequest
    /\ req = NoRequest
    /\ fh = NoFinnhubCall
    /\ hist = NoHistCall
    /\ report = NoReport
    /\ news = NoNewsCall
    /\ metrics = NoMetricsCall

\* Spec: the resolve_symbol calls of one session
Next ==
    \/ \E raw \in RawInputs : Call(raw)
    \/ MappingStage
    \/ DirectStage
    \/ NumericStage
    \/ SearchStage
    \/ OpenAIStage
    \/ YahooStage

Spec == Init /\ [][Next]_vars

\* one get_finnhub_json call against the profile endpoint
FinnhubCall ==
    /\ ~fh.called /\ ~hist.called
    /\ \E outs \in AttemptSeqs(ProfilePayloads) :
         LET r == get_finnhub_json(outs)
         IN  fh' = [called |-> TRUE, outs |-> outs, result |-> r.result,
                    attempts |-> r.attempts, warnings |-> r.warnings]
    /\ UNCHANGED <<resolverVars, sessionVars, req, hist, report, partVars>>

\* one get_historical_data call
HistoricalCall ==
    /\ ~fh.called /\ ~hist.called
    /\ \E outs \in DownloadSeqs :
         LET r == get_historical_data(outs)
         IN  hist' = [called |-> TRUE, outs |-> outs, df |-> r.df,
                      technical |-> r.technical, attempts |-> r.attempts,
                      warnings |-> r.warnings]
    /\ UNCHANGED <<resolverVars, sessionVars, req, fh, report, partVars>>

\* one get_historical_data call whose first download returns a longer series
HistoricalYearCall ==
    /\ ~fh.called /\ ~hist.called
    /\ \E df \in YearSeries :
         LET outs == [i \in 1..(HistRetries + 1) |-> [raises |-> FALSE, df |-> df]]
             r    == get_historical_data(outs)
         IN  hist' = [called |-> TRUE, outs |-> outs, df |-> r.df,
                      technical |-> r.technical, attempts |-> r.attempts,
                      warnings |-> r.warnings]
    /\ UNCHANGED <<resolverVars, sessionVars, req, fh, report, partVars>>

\* SpecClient: the two retry-wrapped provider clients
NextClient == FinnhubCall \/ HistoricalCall \/ HistoricalYearCall

SpecClient == Init /\ [][NextClient]_vars

\* one run of the try block of index for a resolved symbol
Report ==
    /\ \E symbol \in ReportSymbols, data \in QuoteFinnhubResults,
          h \in HistResults, analysisRaises \in BOOLEAN :
         report' = IndexTry(symbol, data, h, analysisRaises)
    /\ UNCHANGED <<resolverVars, sessionVars, req, fh, hist, partVars>>

\* SpecReport: the reports of index
NextReport == Report

SpecReport == Init /\ [][NextReport]_vars

\* one get_recent_news call; the text completion is asked on the synthetic
\* branch only
NewsCall ==
    /\ ~news.called /\ ~metrics.called
    /\ \E payload \in NewsFinnhubResults :
         IF ~IsList(payload) \/ payload.items = <<>>
         THEN \E reply \in OpenAINewsOutcomes :
                 LET r == get_recent_news(payload, reply)
                 IN  news' = [called |-> TRUE, payload |-> payload, asked |-> TRUE,
                              reply |-> reply, raises |-> r.raises, branch |-> r.branch,
                              news |-> r.news]
         ELSE LET r == get_recent_news(payload, OpenAIRaises)
              IN  news' = [called |-> TRUE, payload |-> payload, asked |-> FALSE,
                           reply |-> OpenAIRaises, raises |-> r.raises,
                           branch |-> r.branch, news |-> r.news]
    /\ UNCHANGED <<resolverVars, sessionVars, req, fh, hist, report, metrics>>

\* one filter_metrics call
MetricsCall ==
    /\ ~news.called /\ ~metrics.called
    /\ \E m \in MetricsDicts :
         metrics' = [called |-> TRUE, metrics |-> m, filtered |-> filter_metrics(m)]
    /\ UNCHANGED <<resolverVars, sessionVars, req, fh, hist, report, news>>

\* SpecParts: the parts of the report called on their own
NextParts == NewsCall \/ MetricsCall

SpecParts == Init /\ [][NextParts]_vars

\* line 264: the "metric" object of the stock/metric answer
get_metrics(data) == Get(data, "metric", EmptyDict)

\* the answers of the providers while one whole request is followed
RequestQuotes == {FullQuote, Without(FullQuote, "c"), EmptyDict}

RequestMetrics ==
    {EmptyDict, [metric |-> [peTTM |-> Num(1250000), roeTTM |-> Str(NA)]]}

RequestNews ==
    {EmptyDict, List(<<NewsItem(1), NewsItem(2)>>), List(<<Str(Unknown)>>)}

RequestNewsReplies ==
    {OpenAIRaises, OpenAIReply(GoodLine(1) \o <<"\n", "H", "S">>)}

RequestProfiles == {p \in CompanyProfiles : p = EmptyDict \/ HasName(p)}

RequestHistory ==
    {get_historical_data([i \in 1..(HistRetries + 1) |-> o]) :
        o \in {[raises |-> TRUE, df |-> <<>>],
               [raises |-> FALSE, df |-> <<>>],
               [raises |-> FALSE, df |-> <<CHOOSE b \in Bars : b.Close = 9800>>]}}

\* faulty variant: the result of resolve_symbol is not looked at
NotSymbolNever(symbol) == FALSE

\* line 437: if not symbol
NotSymbol(symbol) == ~Truthy(symbol)

\* the request went to quote, metrics, ... with the ticker it holds
Fetched(rq, what) == [rq EXCEPT !.fetches = Append(@, <<what, rq.symbol>>)]

\* line 486: any exception in the try block becomes the error result
Failed(rq) == [rq EXCEPT !.pc = "done", !.outcome = "error"]

\* lines 414-436 of index, POST: the count and the limit of the tier, the
\* limit error, the trimmed input, the missing-field error, and the call of
\* resolve_symbol
PostOf(raw) ==
    LET rq == [NoRequest EXCEPT !.request_count = request_count,
                                !.current_limit = LimitOf(paid_tier)]
    IN  IF LimitReached(rq.request_count, rq.current_limit)
        THEN /\ req' = [rq EXCEPT !.pc = "done", !.outcome = "limit"]
             /\ UNCHANGED <<resolverVars, sessionVars, fh, hist, report, partVars>>
        ELSE IF Strip(raw) = <<>>
             THEN /\ req' = [rq EXCEPT !.pc = "done", !.outcome = "empty"]
                  /\ UNCHANGED <<resolverVars, sessionVars, fh, hist, report, partVars>>
             ELSE /\ req' = [rq EXCEPT !.pc = "resolving", !.symbol_input = Strip(raw)]
                  /\ Begin(Strip(raw))

\* the first POST of a session
Post ==
    /\ req.pc = "idle"
    /\ \E raw \in RawInputs : PostOf(raw)

\* lines 436-445: resolve_symbol has returned (or raised); with a symbol the
\* try block is entered and the request counted
Resolved ==
    /\ req.pc = "resolving"
    /\ pc \in {"returned", "raised"}
    /\ req' = IF pc = "raised"
              THEN [req EXCEPT !.pc = "done", !.outcome = "raised"]
              ELSE IF NotSymbol(result)
                   THEN [req EXCEPT !.pc = "done", !.outcome = "notfound"]
                   ELSE [req EXCEPT !.pc = "quote", !.symbol = result.s]
    /\ request_count' = IF pc = "returned" /\ ~NotSymbol(result)
                        THEN req.request_count + 1
                        ELSE request_count
    /\ UNCHANGED <<resolverVars, sid, other, asked, paid_tier, subscribed, handled,
                   fh, hist, report, partVars>>

\* line 446
FetchQuote ==
    /\ req.pc = "quote"
    /\ \E data \in FinnhubResults(RequestQuotes) :
         req' = IF get_quote(data).raises
                THEN Failed(Fetched(req, "quote"))
                ELSE [Fetched(req, "quote") EXCEPT
                        !.pc = "metrics", !.quote = get_quote(data).quote]
    /\ UNCHANGED <<resolverVars, sessionVars, fh, hist, report, partVars>>

\* line 447
FetchMetrics ==
    /\ req.pc = "metrics"
    /\ \E data \in FinnhubResults(RequestMetrics) :
         req' = [Fetched(req, "metrics") EXCEPT
                   !.pc = "news", !.metrics = filter_metrics(get_metrics(data))]
    /\ UNCHANGED <<resolverVars, sessionVars, fh, hist, report, partVars>>

\* line 448
FetchNews ==
    /\ req.pc = "news"
    /\ \E payload \in FinnhubResults(RequestNews), reply \in RequestNewsReplies :
         LET r         == get_recent_news(payload, reply)
             said == IF r.branch = "synthetic"
                     THEN [asked |-> TRUE, raises |-> reply.raises, content |-> reply.content]
                     ELSE NoSuggestion
             rq   == [Fetched(req, "news") EXCEPT !.newsReply = said]
         IN  req' = IF r.raises
                    THEN Failed(rq)
                    ELSE [rq EXCEPT !.pc = "profile", !.news = r.news]
    /\ UNCHANGED <<resolverVars, sessionVars, fh, hist, report, partVars>>

\* lines 449-451
FetchProfile ==
    /\ req.pc = "profile"
    /\ \E profile \in RequestProfiles :
         req' = [Fetched(req, "profile") EXCEPT !.pc = "historical", !.profile = profile]
    /\ UNCHANGED <<resolverVars, sessionVars, fh, hist, report, partVars>>

\* lines 452-454
FetchHistorical ==
    /\ req.pc = "historical"
    /\ \E h \in RequestHistory :
         req' = [Fetched(req, "historical") EXCEPT
                   !.pc = "analysis", !.technical = h.technical,
                   !.quote = SetItem(@, "volume", Get(h.technical, "volume", Str(NA)))]
    /\ UNCHANGED <<resolverVars, sessionVars, fh, hist, report, partVars>>

\* lines 456-485: the analysis asked of the text completion, and the result
Analysis ==
    /\ req.pc = "analysis"
    /\ \E raises \in BOOLEAN :
         req' = IF raises THEN Failed(req)
                ELSE [req EXCEPT !.pc = "done", !.outcome = "report"]
    /\ UNCHANGED <<resolverVars, sessionVars, fh, hist, report, partVars>>

\* SpecRequest: one POST request, from the form field to the result
NextRequest ==
    \/ Post
    \/ MappingStage
    \/ DirectStage
    \/ NumericStage
    \/ SearchStage
    \/ OpenAIStage
    \/ YahooStage
    \/ Resolved
    \/ FetchQuote
    \/ FetchMetrics
    \/ FetchNews
    \/ FetchProfile
    \/ FetchHistorical
    \/ Analysis

SpecRequest == Init /\ [][NextRequest]_vars

\* the requests of two sessions, interleaved: the server leaves the request it
\* was running where it stands and runs a request of the other session

\* the session and the locals of the running request
Running ==
    [cacheInSession |-> cacheInSession, cache |-> cache, pc |-> pc, rawInput |-> rawInput,
     input_str |-> input_str, result |-> result, acceptedBy |-> acceptedBy,
     validatedAt |-> validatedAt, stagesRun |-> stagesRun, probes |-> probes,
     cacheWrites |-> cacheWrites, upstreamCalls |-> upstreamCalls,
     cache0 |-> cache0, prev |-> prev, suggestion |-> suggestion]

\* faulty variant: one symbol cache for every session
SessionOfServer(running, parked) ==
    [cacheInSession |-> running.cacheInSession, cache |-> running.cache]

\* lines 143-151: session is the session of the request being run, so the
\* request taken up finds the symbol_cache its own session was left with
SessionOfRequest(running, parked) ==
    [cacheInSession |-> parked.cacheInSession, cache |-> parked.cache]

Switch ==
    /\ sid' = 3 - sid
    /\ other' = Running
    /\ LET session == SessionOfRequest(Running, other)
       IN  /\ cacheInSession' = session.cacheInSession
           /\ cache' = session.cache
    /\ pc' = other.pc
    /\ rawInput' = other.rawInput
    /\ input_str' = other.input_str
    /\ result' = other.result
    /\ acceptedBy' = other.acceptedBy
    /\ validatedAt' = other.validatedAt
    /\ stagesRun' = other.stagesRun
    /\ probes' = other.probes
    /\ cacheWrites' = other.cacheWrites
    /\ upstreamCalls' = other.upstreamCalls
    /\ cache0' = other.cache0
    /\ prev' = other.prev
    /\ suggestion' = other.suggestion
    /\ UNCHANGED <<calls, asked, quotaVars, req, fh, hist, report, partVars>>

\* what the two sessions ask for: a name, a bare number, and nothing
SessionInputs == { <<" ">> \o TSMC \o <<" ">>, S9999999, <<>> }

NextSessions ==
    \/ Switch
    \/ \E raw \in SessionInputs : Call(raw)
    \/ MappingStage
    \/ DirectStage
    \/ NumericStage
    \/ SearchStage
    \/ OpenAIStage
    \/ YahooStage

SpecSessions == Init /\ [][NextSessions]_vars

\* the requests of one session, one after the other: requests to the payment
\* routes and to reset, then a POST of index

\* the session of the running request, as the routes see it
SessionNow ==
    [request_count |-> request_count, paid_tier |-> paid_tier, subscribed |-> subscribed,
     has_cache |-> cacheInSession, symbol_cache |-> cache]

\* no POST of index has arrived yet
BetweenRequests == req.pc = "idle"

\* a route returns: the session it leaves, and what it was asked
Leave(session, route, arg) ==
    /\ request_count' = session.request_count
    /\ paid_tier' = session.paid_tier
    /\ subscribed' = session.subscribed
    /\ cacheInSession' = session.has_cache
    /\ cache' = session.symbol_cache
    /\ handled' = [route |-> route, arg |-> arg, cached |-> DOMAIN cache]
    /\ UNCHANGED <<pc, rawInput, input_str, result, acceptedBy, validatedAt, stagesRun,
                   probes, cacheWrites, upstreamCalls, cache0, prev, calls, suggestion,
                   sid, other, asked, req, fh, hist, report, partVars>>

\* the tier names a form or a URL can carry: those of the tiers, and another
TierNames == { PRICING_TIERS[i].name : i \in 1..Len(PRICING_TIERS) } \cup {"Gold"}

\* the passwords a form can carry
Passwords == { ResetPassword, "88888", "" }

CheckoutCall ==
    /\ BetweenRequests
    /\ \E tier_name \in TierNames :
         Leave(create_checkout_session(SessionNow, tier_name), "checkout", tier_name)

PaymentCall ==
    /\ BetweenRequests
    /\ \E tier_name \in TierNames :
         Leave(payment_success(SessionNow, tier_name), "payment", tier_name)

ResetCall ==
    /\ BetweenRequests
    /\ \E password \in Passwords :
         Leave(reset(SessionNow, password), "reset", password)

\* what the session asks for: the name it has asked for before, and nothing
QuotaInputs == { <<" ">> \o TSMC \o <<" ">>, <<>> }

\* a POST of index after the requests to the other routes
PostCall ==
    /\ BetweenRequests
    /\ \E raw \in QuotaInputs : PostOf(raw)

\* the sessions a behaviour starts from: a new one, and for each tier one
\* that has asked for "TSMC" so often that one request or none is left
QuotaSessions ==
    {FreshSession} \cup
    { [request_count |-> LimitOf(t) - left, paid_tier |-> t, subscribed |-> t > 0,
       has_cache |-> TRUE, symbol_cache |-> Put(<<>>, TSMC, S2330TW)] :
      t \in 0..(Len(PRICING_TIERS) - 1), left \in 0..1 }

InitQuota ==
    /\ \E session \in QuotaSessions :
         /\ request_count = session.request_count
         /\ paid_tier = session.paid_tier
         /\ subscribed = session.subscribed
         /\ cacheInSession = session.has_cache
         /\ cache = session.symbol_cache
         /\ cache0 = session.symbol_cache
    /\ pc = "idle"
    /\ rawInput = <<>>
    /\ input_str = <<>>
    /\ result = Null
    /\ acceptedBy = "none"
    /\ validatedAt = {}
    /\ stagesRun = {}
    /\ probes = <<>>
    /\ cacheWrites = 0
    /\ upstreamCalls = 0
    /\ prev = NoPrev
    /\ calls = 0
    /\ suggestion = NoSuggestion
    /\ sid = 1
    /\ other = NoCall
    /\ asked = [s \in Sessions |-> {}]
    /\ handled = NoQuotaRequest
    /\ req = NoRequest
    /\ fh = NoFinnhubCall
    /\ hist = NoHistCall
    /\ report = NoReport
    /\ news = NoNewsCall
    /\ metrics = NoMetricsCall

NextQuota ==
    \/ PostCall
    \/ MappingStage
    \/ DirectStage
    \/ NumericStage
    \/ SearchStage
    \/ OpenAIStage
    \/ YahooStage
    \/ Resolved
    \/ FetchQuote
    \/ FetchMetrics
    \/ FetchNews
    \/ FetchProfile
    \/ FetchHistorical
    \/ Analysis
    \/ CheckoutCall
    \/ PaymentCall
    \/ ResetCall

SpecQuota == InitQuota /\ [][NextQuota]_vars


-----------------------------------------------------------------------------
(* Properties of resolve_symbol (checked under Spec) *)

\* a stage other than the cache lookup returned the ticker
AcceptedByStage == pc = "returned" /\ acceptedBy \in Stages

\* C1, as stated: whenever a stage accepts a ticker, a company-profile lookup
\* for exactly that ticker returned a non-empty name earlier in the call,
\* for every stage, the secondary-provider stage included.
C1_EveryStageGated ==
    AcceptedByStage => <<acceptedBy, result.s>> \in validatedAt

\* C1, amended: the gate holds for every stage but the secondary-provider
\* stage: a ticker accepted (returned and written into the cache) by the
\* mapping, direct-symbol, numeric-ID, search or inference stage had a profile
\* lookup for exactly that ticker return a non-empty name in the same call.
C1_GatedBeforeSecondaryProvider ==
    (AcceptedByStage /\ acceptedBy # "yahoo") =>
        /\ <<acceptedBy, result.s>> \in validatedAt
        /\ input_str \in DOMAIN cache
        /\ cache[input_str] = result.s

C1_Witness ==
    /\ AcceptedByStage
    /\ acceptedBy = "openai"
    /\ result = Str(S2454TW)
    /\ <<"openai", S2454TW>> \in validatedAt

\* C2: a call that returns None leaves the cache mapping as it was when the
\* call began: no entry added, changed or removed, and no write made.
C2_NotFoundLeavesCache ==
    (pc = "returned" /\ result = Null) =>
        /\ cache = cache0
        /\ cacheWrites = 0

C2_Witness ==
    /\ pc = "returned"
    /\ result = Null
    /\ input_str = S9999999
    /\ Len(probes) = 2
    /\ cache0 # <<>>
    /\ cache = cache0

\* C3, as stated: a call whose trimmed input is a key of SYMBOL_MAPPINGS
\* returns the mapped ticker and never runs the search or inference stage,
\* whatever the providers answer.
C3_MappingKeyAlwaysMapped ==
    (pc = "returned" /\ input_str \in DOMAIN SYMBOL_MAPPINGS) =>
        /\ result = Str(SYMBOL_MAPPINGS[input_str])
        /\ stagesRun \cap {"search", "openai"} = {}

\* C3, amended: when the input is a key of SYMBOL_MAPPINGS and the mapping
\* stage's profile lookup for the mapped ticker returns a non-empty name, the
\* call returns the mapped ticker having run no stage but the mapping stage
\* (so neither search nor inference).
C3_ValidatedMappingWins ==
    (/\ input_str \in DOMAIN SYMBOL_MAPPINGS
     /\ <<"mapping", SYMBOL_MAPPINGS[input_str]>> \in validatedAt) =>
        /\ pc = "returned"
        /\ result = Str(SYMBOL_MAPPINGS[input_str])
        /\ stagesRun = {"mapping"}

C3_Witness ==
    /\ pc = "returned"
    /\ rawInput = <<" ">> \o TSMC \o <<" ">>
    /\ input_str = TSMC
    /\ acceptedBy = "mapping"
    /\ result = Str(S2330TW)

\* C4: a purely numeric input that is not in the cache is probed with '.TW'
\* and then '.TWO', stopping at the first suffix that validates; the call
\* returns None when neither validates and never runs the search, inference
\* or secondary-provider stage.
C4_NumericProbesInOrder ==
    (IsDigit(input_str) /\ acceptedBy # "cache") =>
        /\ stagesRun \subseteq {"numeric"}
        /\ pc \notin {"search", "openai", "yahoo", "raised"}
        /\ pc = "returned" =>
             LET tw  == input_str \o <<".", "T", "W">>
                 two == input_str \o <<".", "T", "W", "O">>
             IN  \/ /\ probes = <<tw>>
                    /\ <<"numeric", tw>> \in validatedAt
                    /\ result = Str(tw)
                 \/ /\ probes = <<tw, two>>
                    /\ <<"numeric", tw>> \notin validatedAt
                    /\ <<"numeric", two>> \in validatedAt
                    /\ result = Str(two)
                 \/ /\ probes = <<tw, two>>
                    /\ validatedAt = {}
                    /\ result = Null

C4_Witness ==
    /\ pc = "returned"
    /\ input_str = S9999999
    /\ probes = <<S9999999 \o DotTW, S9999999 \o DotTWO>>
    /\ result = Str(S9999999 \o DotTWO)

\* the call is the second of two consecutive calls with the same raw input,
\* and the first returned
SecondOfTwo == prev.valid /\ prev.returned /\ prev.raw = rawInput /\ calls >= 2

\* C5, as stated: for any raw input the second of two consecutive calls
\* returns what the first returned and makes no upstream call.
C5_SecondCallAlwaysCached ==
    (SecondOfTwo /\ pc = "returned") =>
        /\ result = prev.result
        /\ upstreamCalls = 0

\* C5, amended: when the first call resolved the input to a ticker, the second
\* call returns the identical ticker at once, served from the cache, with no
\* stage run and no upstream call.
C5_ResolvedInputServedFromCache ==
    (SecondOfTwo /\ prev.result # Null) =>
        /\ pc = "returned"
        /\ acceptedBy = "cache"
        /\ result = prev.result
        /\ upstreamCalls = 0
        /\ stagesRun = {}

C5_Witness ==
    /\ SecondOfTwo
    /\ prev.result = Str(S2330TW)
    /\ rawInput = S2330tw
    /\ acceptedBy = "cache"
    /\ result = Str(S2330TW)

\* C6: a call that succeeds through a stage other than the cache lookup makes
\* exactly one cache write: it adds (trimmed input -> returned ticker) and
\* leaves the entry of every other key as it was.
C6_OneEntryAdded ==
    AcceptedByStage =>
        /\ cacheWrites = 1
        /\ input_str \notin DOMAIN cache0
        /\ DOMAIN cache = DOMAIN cache0 \cup {input_str}
        /\ cache[input_str] = result.s
        /\ \A k \in DOMAIN cache0 : cache[k] = cache0[k]

\* the scenario of C6: the mapped name first, then the ticker itself
C6_Witness ==
    /\ AcceptedByStage
    /\ acceptedBy = "direct"
    /\ input_str = S2330TW
    /\ DOMAIN cache0 = {TSMC}
    /\ DOMAIN cache = {TSMC, S2330TW}
    /\ cache[TSMC] = S2330TW
    /\ cache[S2330TW] = S2330TW

\* C7: no exception propagates out of resolve_symbol.
C7_NoExceptionPropagates == pc # "raised"


-----------------------------------------------------------------------------
(* Properties of the provider clients (checked under SpecClient) *)

\* the first attempt among the first n that meets P, or 0
FirstWhere(P(_), n) ==
    IF \E i \in 1..n : P(i)
    THEN CHOOSE i \in 1..n : P(i) /\ \A j \in 1..(i - 1) : ~P(j)
    ELSE 0

\* C8: get_finnhub_json makes at most 3 attempts; it returns the payload of
\* the first attempt that succeeds and attempts nothing after it; after 3
\* failed attempts it returns an empty result; it logs one warning per failed
\* attempt.
C8_ThreeAttemptsFirstSuccess ==
    fh.called =>
        LET Ok(i) == fh.outs[i].ok
            first == FirstWhere(Ok, 3)
        IN  /\ fh.attempts <= 3
            /\ first # 0 => /\ fh.attempts = first
                            /\ fh.result = fh.outs[first].payload
                            /\ fh.warnings = first - 1
            /\ first = 0 => /\ fh.attempts = 3
                            /\ fh.result = EmptyDict
                            /\ fh.warnings = 3

C8_Witness ==
    /\ fh.called
    /\ ~fh.outs[1].ok /\ ~fh.outs[2].ok /\ fh.outs[3].ok /\ fh.outs[4].ok
    /\ fh.outs[3].payload # fh.outs[4].payload
    /\ fh.attempts = 3
    /\ fh.warnings = 2
    /\ fh.result = fh.outs[3].payload
    /\ fh.result # EmptyDict

\* C9: get_historical_data makes at most 3 download attempts, retries after an
\* attempt that raises and after one that returns an empty series, stops at
\* the first non-empty series, and returns an empty series with an empty
\* technical snapshot when all 3 attempts gave none.
C9_ThreeDownloadsFirstNonEmpty ==
    hist.called =>
        LET Good(i) == ~hist.outs[i].raises /\ hist.outs[i].df # <<>>
            first == FirstWhere(Good, 3)
        IN  /\ hist.attempts <= 3
            /\ first # 0 => /\ hist.attempts = first
                            /\ hist.df = hist.outs[first].df
                            /\ hist.technical # EmptyDict
            /\ first = 0 => /\ hist.attempts = 3
                            /\ hist.df = <<>>
                            /\ hist.technical = EmptyDict

C9_Witness ==
    /\ hist.called
    /\ hist.outs[1].raises
    /\ ~hist.outs[2].raises /\ hist.outs[2].df = <<>>
    /\ ~hist.outs[3].raises /\ hist.outs[3].df # <<>>
    /\ hist.attempts = 3
    /\ hist.df = hist.outs[3].df

-----------------------------------------------------------------------------
(* Properties of the report (checked under SpecReport) *)

\* C10: for every answer of the quote endpoint the request ends with a quote
\* of all 7 keys, a field the provider left out being marked 'N/A'; with an
\* empty historical series the quote still has 7 keys and volume is 'N/A'.
C10_QuoteHasSevenKeys ==
    report.status # "none" =>
        /\ report.status = "ok"
        /\ DOMAIN report.quote = QUOTE_FIELDS
        /\ report.df = <<>> => report.quote["volume"] = Str(NA)


-----------------------------------------------------------------------------
(* Properties of the indicators (checked under SpecClient) *)

\* the bars support and resistance are read from: the trailing SupportWindow
\* bars, or all of them when there are fewer
TrailingFrom(df) == IF Len(df) > SupportWindow THEN Len(df) - SupportWindow + 1 ELSE 1

\* C11, as stated: a non-empty series of fewer than 50 bars has ma50
\* unavailable, a series of fewer than 20 bars has support and resistance
\* unavailable, and with at least 20 bars support is the minimum low and
\* resistance the maximum high of the trailing 20 bars.
C11_ShortSeriesHasNoSupport ==
    (hist.called /\ hist.df # <<>>) =>
        LET df == hist.df
            t  == hist.technical
        IN  /\ Len(df) < Ma50Window => t.ma50 = NaN
            /\ Len(df) < SupportWindow => t.support = NaN /\ t.resistance = NaN
            /\ Len(df) >= SupportWindow =>
                 /\ \A i \in TrailingFrom(df)..Len(df) :
                       t.support.n <= df[i].Low /\ t.resistance.n >= df[i].High
                 /\ \E i \in TrailingFrom(df)..Len(df) : t.support = Num(df[i].Low)
                 /\ \E i \in TrailingFrom(df)..Len(df) : t.resistance = Num(df[i].High)

\* C11, amended: a non-empty series of fewer than 50 bars has ma50 unavailable
\* (nan); support is the minimum low and resistance the maximum high of the
\* trailing 20 bars, and of all the bars there are when the series has fewer
\* than 20: they are numbers for every non-empty series.
C11_SupportOfAvailableBars ==
    (hist.called /\ hist.df # <<>>) =>
        LET df == hist.df
            t  == hist.technical
        IN  /\ Len(df) < Ma50Window => t.ma50 = NaN
            /\ Len(df) >= Ma50Window => t.ma50.t = "num"
            /\ \A i \in TrailingFrom(df)..Len(df) :
                  t.support.n <= df[i].Low /\ t.resistance.n >= df[i].High
            /\ \E i \in TrailingFrom(df)..Len(df) : t.support = Num(df[i].Low)
            /\ \E i \in TrailingFrom(df)..Len(df) : t.resistance = Num(df[i].High)

\* a series of fewer than 20 bars whose lows differ: ma50 is nan, support is
\* the lowest low and resistance the highest high of the bars there are
C11_Witness ==
    /\ hist.called
    /\ Len(hist.df) > 1 /\ Len(hist.df) < SupportWindow
    /\ \E i, j \in 1..Len(hist.df) : hist.df[i].Low < hist.df[j].Low
    /\ hist.technical.ma50 = NaN
    /\ hist.technical.support.t = "num"
    /\ \A i \in 1..Len(hist.df) : hist.technical.support.n <= hist.df[i].Low
    /\ hist.technical.resistance.t = "num"


\* the first of the differences the trailing RsiPeriod entries of gain and
\* loss are made of
FirstDiff(series) ==
    IF Len(series) > RsiPeriod THEN Len(series) - RsiPeriod + 1 ELSE 2

\* the sum of the rises of the closing price over those differences
Ups(series) ==
    SumSeq([j \in 1..(Len(series) - FirstDiff(series) + 1) |->
              LET i == FirstDiff(series) + j - 1
              IN  IF series[i] > series[i - 1] THEN series[i] - series[i - 1] ELSE 0])

\* the sum of its falls
Downs(series) ==
    SumSeq([j \in 1..(Len(series) - FirstDiff(series) + 1) |->
              LET i == FirstDiff(series) + j - 1
              IN  IF series[i] < series[i - 1] THEN series[i - 1] - series[i] ELSE 0])

\* C12: for every closing-price series whose trailing 14-period average loss
\* is not zero, calculate_rsi returns a finite value between 0 and 100, equal
\* to 100 - 100 / (1 + avg_gain / avg_loss) = 100 * ups / (ups + downs) for the
\* rises and falls over the last 14 differences (all of them when the series
\* has fewer); the technical dict carries it rounded to 2 decimals.
C12_RsiWithinBounds ==
    (hist.called /\ hist.df # <<>>) =>
        LET series == CloseOf(hist.df)
            rsi    == calculate_rsi(series)
            ups    == Ups(series)
            downs  == Downs(series)
        IN  downs # 0 =>
              /\ rsi.k = "fin"
              /\ 0 <= rsi.num /\ rsi.num <= 100 * rsi.den
              /\ rsi.num * (ups + downs) = 100 * ups * rsi.den
              /\ hist.technical.rsi = Num(RoundDiv(10000 * ups, ups + downs))

\* a series longer than the window that moved before the window began, and
\* rose and fell by different amounts inside it: the rsi is strictly between
\* 0 and 100 and is not 50
C12_Witness ==
    /\ hist.called
    /\ Len(hist.df) > RsiPeriod + 1
    /\ hist.df[1].Close # hist.df[2].Close
    /\ Ups(CloseOf(hist.df)) > 0
    /\ Downs(CloseOf(hist.df)) > 0
    /\ Ups(CloseOf(hist.df)) # Downs(CloseOf(hist.df))
    /\ hist.technical.rsi.t = "num"
    /\ hist.technical.rsi.n > 0 /\ hist.technical.rsi.n < 10000
    /\ hist.technical.rsi.n # 5000


-----------------------------------------------------------------------------
(* Properties of get_recent_news (checked under SpecParts) *)

\* the lines of the generated text the items are made of
GeneratedLines == SplitLines(Strip(news.reply.content))

\* line is a headline and a summary around one ' - ', both non-empty after
\* trimming
MadeOf(item, line) ==
    \E i \in 1..(Len(line) - Len(Delim) + 1) :
        /\ SubSeq(line, i, i + Len(Delim) - 1) = Delim
        /\ Strip(SubSeq(line, 1, i - 1)) # <<>>
        /\ Strip(SubSeq(line, i + Len(Delim), Len(line))) # <<>>
        /\ item.headline = Str(Strip(SubSeq(line, 1, i - 1)))
        /\ item.summary = Str(Strip(SubSeq(line, i + Len(Delim), Len(line))))

\* C13: a get_recent_news call that returns gives at most 10 items, whatever
\* the provider payload and the generated text; on an empty or non-list
\* payload it asks the text completion, and every synthetic item is made of a
\* generated line that holds ' - ' between two parts non-empty after trimming,
\* so a line without the delimiter gives no item.
C13_AtMostTenNewsItems ==
    (news.called /\ ~news.raises) =>
        /\ Len(news.news) <= NewsCap
        /\ (~IsList(news.payload) \/ news.payload.items = <<>>) =>
              news.asked /\ news.branch = "synthetic"
        /\ news.branch = "synthetic" =>
              /\ news.reply.raises => news.news = <<>>
              /\ ~news.reply.raises =>
                    /\ \A k \in 1..Len(news.news) :
                          \E l \in 1..Len(GeneratedLines) :
                              MadeOf(news.news[k], GeneratedLines[l])
                    /\ Len(news.news) <=
                          Cardinality({l \in 1..Len(GeneratedLines) :
                                          IsSubstring(Delim, GeneratedLines[l])})

\* the provider answered with an empty list; the generated text has more than
\* 10 lines, one of the first 10 without the delimiter: 9 items are returned
C13_Witness ==
    /\ news.called /\ news.asked /\ ~news.reply.raises
    /\ news.payload = List(<<>>)
    /\ Len(GeneratedLines) > NewsCap
    /\ \E l \in 1..NewsCap : ~IsSubstring(Delim, GeneratedLines[l])
    /\ Len(news.news) = NewsCap - 1

\* the item of the provider list a returned item was made of
RawItem(item) ==
    CHOOSE x \in {news.payload.items[i] : i \in 1..Len(news.payload.items)} :
        IsDict(x) /\ x.id = item.id

\* C18: when the provider returns a non-empty list, get_recent_news returns
\* the items with the largest raw timestamps, at most 10, ordered by raw
\* timestamp descending, each with its datetime formatted, or the placeholder
\* when the conversion fails; a conversion failure drops no item and raises
\* nothing.
C18_NewestTenConverted ==
    (news.called /\ IsList(news.payload) /\ news.payload.items # <<>>) =>
        LET items == news.payload.items
        IN  /\ ~news.raises
            /\ Len(news.news) = (IF Len(items) < NewsCap THEN Len(items) ELSE NewsCap)
            /\ \A k \in 1..Len(news.news) :
                  /\ \E i \in 1..Len(items) : IsDict(items[i]) /\ items[i].id = news.news[k].id
                  /\ \/ news.news[k]["datetime"] = Str(UnknownTime)
                     \/ /\ SortKey(RawItem(news.news[k])).t = "num"
                        /\ news.news[k]["datetime"] =
                              Str(StrfTime(SortKey(RawItem(news.news[k])).n))
            /\ \A k, l \in 1..Len(news.news) :
                  k < l => ~KeyLess(SortKey(RawItem(news.news[k])), SortKey(RawItem(news.news[l])))


-----------------------------------------------------------------------------
(* Properties of filter_metrics (checked under SpecParts) *)

\* the 8 normalized keys and the provider key of each
NormalizedKeys ==
    { <<"peTTM", <<"p","e","_","r","a","t","i","o">>, "ratio">>,
      <<"pb", <<"p","b","_","r","a","t","i","o">>, "ratio">>,
      <<"roeTTM", <<"r","o","e","_","t","t","m">>, "percent">>,
      <<"roaTTM", <<"r","o","a","_","t","t","m">>, "percent">>,
      <<"grossMarginTTM", <<"g","r","o","s","s","_","m","a","r","g","i","n","_","t","t","m">>, "percent">>,
      <<"revenueGrowthTTMYoy", <<"r","e","v","e","n","u","e","_","g","r","o","w","t","h">>, "percent">>,
      <<"epsGrowthTTMYoy", <<"e","p","s","_","g","r","o","w","t","h">>, "percent">>,
      <<"debtToEquityAnnual", <<"d","e","b","t","_","t","o","_","e","q","u","i","t","y">>, "ratio">> }

\* C19: filter_metrics outputs only keys among the 8 normalized keys; a
\* normalized key is present exactly when the provider gave a non-null value
\* under its provider key; a value that parses as a number becomes a
\* percentage string under the growth, margin, roe and roa keys and a rounded
\* number under the others, and a value that does not parse is kept as its
\* string form.
C19_MetricsFilteredByKey ==
    metrics.called =>
        /\ DOMAIN metrics.filtered \subseteq {e[2] : e \in NormalizedKeys}
        /\ \A e \in NormalizedKeys :
              LET v   == Get(metrics.metrics, e[1], Null)
                  out == metrics.filtered[e[2]]
              IN  /\ e[2] \in DOMAIN metrics.filtered <=> v # Null
                  /\ v # Null =>
                        IF ToFloat(v).ok
                        THEN IF e[3] = "percent"
                             THEN out.t = "str" /\ out.s[Len(out.s)] = "%"
                             ELSE out.t \in {"num", "nan"}
                        ELSE out = Str(PyStr(v))
        /\ metrics.metrics = [k \in DOMAIN metrics.metrics |-> Num(1250000)] =>
              \A e \in NormalizedKeys :
                  e[2] \in DOMAIN metrics.filtered =>
                      metrics.filtered[e[2]] =
                          IF e[3] = "percent"
                          THEN Str(<<"1", "2", ".", "5", "0", "%">>)
                          ELSE Num(1250000)

\* every provider key is there: the price-to-book value does not parse and
\* is kept as its string, the return on equity comes out as a percentage,
\* the price-earnings ratio as a number, and the unmapped metric is left out
C19_Witness ==
    /\ metrics.called
    /\ DOMAIN metric_map \subseteq DOMAIN metrics.metrics
    /\ metrics.metrics["pb"] = Str(NA)
    /\ metrics.filtered[<<"p","b","_","r","a","t","i","o">>] = Str(NA)
    /\ metrics.filtered[<<"r","o","e","_","t","t","m">>] = Str(<<"1", "2", ".", "5", "0", "%">>)
    /\ metrics.filtered[<<"p","e","_","r","a","t","i","o">>] = Num(1250000)
    /\ Cardinality(DOMAIN metrics.filtered) = 8


-----------------------------------------------------------------------------
(* The order of the cascade (checked under Spec) *)

\* the place of each stage after the cache lookup
StageRank ==
    [mapping |-> 1, direct |-> 2, numeric |-> 3, search |-> 4, openai |-> 5, yahoo |-> 6]

\* C16: resolve_symbol goes through cache lookup, static mapping, direct
\* symbol, numeric ID, provider search, text completion and secondary provider
\* in this order: every step moves to a later stage, a stage makes its upstream
\* call only at its turn, a candidate validated by a stage is returned by that
\* very stage (no later stage runs), and the ticker returned is cached under
\* the trimmed input by the stage whose turn it was; a cache hit runs no stage.
C16_StagesInFixedOrder ==
    [][ /\ (pc \in Stages /\ pc' \in Stages) => StageRank[pc] < StageRank[pc']
        /\ pc' \in Stages => \A s \in stagesRun' : StageRank[s] < StageRank[pc']
        /\ \A s \in stagesRun' \ stagesRun : s = pc
        /\ \A v \in validatedAt' :
              pc' = "returned" /\ acceptedBy' = v[1] /\ result' = Str(v[2])
        /\ (pc' = "returned" /\ acceptedBy' \in Stages) =>
              /\ acceptedBy' = pc
              /\ \A s \in stagesRun' : StageRank[s] <= StageRank[acceptedBy']
              /\ input_str' \in DOMAIN cache'
              /\ cache'[input_str'] = result'.s
        /\ (pc' = "returned" /\ acceptedBy' = "cache") =>
              /\ pc \notin Stages
              /\ stagesRun' = {}
              /\ result' = Str(cache[input_str'])
      ]_vars

\* the mapping, search and text-completion stages made their calls; the search
\* gave no accepted candidate and the text completion's candidate was
\* validated and returned
C16_Witness ==
    /\ pc = "returned"
    /\ acceptedBy = "openai"
    /\ {"search", "openai"} \subseteq stagesRun
    /\ "yahoo" \notin stagesRun
    /\ validatedAt = {<<"openai", result.s>>}
    /\ cache[input_str] = result.s


-----------------------------------------------------------------------------
(* Properties of one request (checked under SpecRequest) *)

\* the parts a report is made of, in the order index fetches them
Parts == <<"quote", "metrics", "news", "profile", "historical">>

\* C14, as stated: once the symbol has resolved, the failure of one part
\* (a quote with omitted fields, empty metrics, failed or malformed news, a
\* failed profile, an empty historical series) does not abort the request:
\* every part is fetched before the request ends.  (The analysis asked of
\* the text completion after the parts is not one of them, so an error
\* outcome with all five parts fetched is left aside.)
C14_NoPartAbortsTheRequest ==
    (req.pc = "done" /\ req.symbol # <<>>) =>
        /\ Len(req.fetches) = Len(Parts)
        /\ req.outcome \in {"report", "error"}

\* C15: within one request a fetch of quote, metrics, news, profile or
\* historical series is issued only after resolve_symbol has returned a
\* ticker, every fetch is issued with that ticker, and a request whose input
\* is empty or whose resolution returned not-found (or raised) issues none.
C15_FetchesAfterResolution ==
    [][ /\ req'.fetches # req.fetches =>
              /\ pc = "returned" /\ result.t = "str" /\ result.s # <<>>
              /\ UNCHANGED <<pc, result>>
              /\ req'.fetches = Append(req.fetches, <<Parts[Len(req.fetches) + 1], result.s>>)
        /\ req'.outcome \in {"empty", "notfound", "raised"} => req'.fetches = <<>>
      ]_vars

\* "TSMC" resolved to "2330.TW" and the five parts were fetched with it
C15_Witness ==
    /\ req.pc = "done" /\ req.outcome = "report"
    /\ req.symbol_input = TSMC
    /\ result = Str(S2330TW)
    /\ req.fetches = [i \in 1..Len(Parts) |-> <<Parts[i], S2330TW>>]

\* the suffix test of the inference stage on what the text completion said
Suffixed(content) == EndsWith(Strip(content), DotTW) \/ EndsWith(Strip(content), DotTWO)

\* C17: a failure of the text completion is never propagated.  In the
\* inference stage of resolve_symbol, when the call raises or the answer ends
\* with neither .TW nor .TWO, nothing is accepted or cached and the cascade
\* goes on to the secondary-provider stage; an answer is accepted only with
\* such a suffix.  In get_recent_news, when the call raises, the news list is
\* empty and the request goes on to the profile.
C17_TextCompletionFailureContained ==
    [][ /\ (pc = "openai" /\ pc' # pc) =>
              /\ suggestion'.asked
              /\ pc' \in {"yahoo", "returned"}
              /\ pc' = "returned" =>
                    /\ ~suggestion'.raises /\ Suffixed(suggestion'.content)
                    /\ result' = Str(Strip(suggestion'.content))
              /\ (suggestion'.raises \/ ~Suffixed(suggestion'.content)) =>
                    /\ pc' = "yahoo"
                    /\ UNCHANGED <<cache, result, acceptedBy, validatedAt, cacheWrites>>
        /\ (req.pc = "news" /\ req'.newsReply.asked /\ req'.newsReply.raises) =>
              /\ req'.news = <<>>
              /\ req'.pc = "profile"
              /\ req'.outcome = "none"
      ]_vars

\* the text completion failed twice in one request: the secondary provider
\* resolved the symbol all the same, and the report has an empty news list
C17_Witness ==
    /\ suggestion.asked /\ suggestion.raises
    /\ pc = "returned" /\ acceptedBy = "yahoo"
    /\ req.newsReply.asked /\ req.newsReply.raises
    /\ req.news = <<>>
    /\ req.pc = "done" /\ req.outcome = "report"


-----------------------------------------------------------------------------
(* Properties of two sessions (checked under SpecSessions) *)

\* C20: the symbol cache is isolated per session.  Whatever the interleaving
\* of the requests of two sessions, a step of one session leaves the cache of
\* the other as it was, the request taken up finds the cache its own session
\* was left with, a cache holds only the inputs its own session has asked
\* for, and an input is answered from the cache only when this session has
\* stored it before.
C20_SessionCachesIsolated ==
    [][ /\ sid' = sid =>
              /\ other'.cache = other.cache
              /\ other'.cacheInSession = other.cacheInSession
        /\ sid' # sid =>
              /\ cache' = other.cache /\ other'.cache = cache
              /\ cacheInSession' = other.cacheInSession
              /\ other'.cacheInSession = cacheInSession
        /\ (sid' = sid /\ pc' = "returned" /\ acceptedBy' = "cache" /\ calls' # calls) =>
              /\ input_str' \in asked[sid]
              /\ input_str' \in DOMAIN cache
              /\ result' = Str(cache[input_str'])
        /\ DOMAIN cache' \subseteq asked'[sid']
        /\ DOMAIN other'.cache \subseteq asked'[3 - sid']
      ]_vars

\* both sessions asked for the same input: the first has it cached, and the
\* second resolved it through a stage of its own all the same
C20_Witness ==
    /\ sid = 2
    /\ input_str \in DOMAIN other.cache
    /\ input_str \in asked[1]
    /\ pc = "returned"
    /\ acceptedBy \notin {"none", "cache"}
    /\ cacheWrites = 1
    /\ input_str \in DOMAIN cache


-----------------------------------------------------------------------------
(* Properties of the quota of a session (checked under SpecQuota) *)

\* a step of the route: only the routes leave the waiting request as it is
RouteStep(route) == req.pc = "idle" /\ req' = req /\ handled'.route = route

\* C21: a reset with the correct password empties the symbol cache of the
\* session and zeroes request_count and the paid tier (the subscribed flag
\* is cleared), so that the next resolution, also of an input that was
\* cached, is not served from the cache and starts the cascade at the
\* mapping stage; a reset with another password leaves the symbol cache,
\* request_count, the subscribed flag and the paid tier as they were.
C21_ResetClearsOnlyWithPassword ==
    [][ /\ RouteStep("reset") =>
              IF handled'.arg = ResetPassword
              THEN /\ cache' = <<>> /\ cacheInSession'
                   /\ request_count' = 0 /\ paid_tier' = 0 /\ subscribed' = FALSE
              ELSE UNCHANGED <<cache, cacheInSession, request_count, subscribed, paid_tier>>
        /\ (/\ handled.route = "reset" /\ handled.arg = ResetPassword
            /\ req.pc = "idle" /\ req'.pc = "resolving") =>
              /\ cache0' = <<>>
              /\ pc' = "mapping" /\ acceptedBy' = "none" /\ result' = Null
      ]_vars

\* "TSMC" was cached when the reset came; the POST after it found the cache
\* empty, resolved "TSMC" at the mapping stage again and was counted as the
\* first request
C21_Witness ==
    /\ handled.route = "reset" /\ handled.arg = ResetPassword
    /\ TSMC \in handled.cached
    /\ req.symbol_input = TSMC
    /\ cache0 = <<>>
    /\ pc = "returned" /\ acceptedBy = "mapping" /\ "mapping" \in stagesRun
    /\ TSMC \in DOMAIN cache
    /\ request_count = 1 /\ paid_tier = 0

\* C22: whatever the requests to create_checkout_session, payment_success
\* and reset and the POST of index that follow, request_count never exceeds
\* the limit of the tier the session is on; a POST that arrives with
\* request_count at the limit is answered at once: resolve_symbol is not
\* called, nothing is fetched, and request_count and the cache stay as they
\* were.
C22_CountWithinLimit ==
    /\ [](request_count <= LimitOf(paid_tier))
    /\ [](req.outcome = "limit" =>
            /\ req.pc = "done" /\ req.fetches = <<>> /\ req.symbol = <<>>
            /\ calls = 0 /\ upstreamCalls = 0 /\ stagesRun = {})
    /\ [][ (req.pc = "idle" /\ req' # req /\ request_count >= LimitOf(paid_tier)) =>
              /\ req'.pc = "done" /\ req'.outcome = "limit"
              /\ UNCHANGED <<resolverVars, quotaVars>>
         ]_vars

\* a session on a paid tier has used its requests up and the next POST is
\* turned away
C22_Witness ==
    /\ req.pc = "done" /\ req.outcome = "limit"
    /\ paid_tier > 0 /\ subscribed
    /\ request_count = LimitOf(paid_tier) /\ req.request_count = request_count
    /\ calls = 0 /\ req.fetches = <<>>

=============================================================================
